---- MODULE Spec2Model ----
(***************************************************************************)
(* Bench Set Generator: permutation generation with pairwise deny rules,   *)
(* content-addressed permutation ids, the permutation file of a template,  *)
(* result upload and validation, the result lifecycle, and the deny-rule   *)
(* editors, and the KPI calculations on stored results.                    *)
(*                                                                         *)
(* The module holds these specifications over one set of variables:        *)
(*   SpecGen     - generate_permutation_data as a function of its inputs   *)
(*   SpecIndex   - concurrent regeneration of permutations_{name}.csv      *)
(*   SpecResults - POST /api/results/upload, GET/DELETE /api/results/<id>  *)
(*   SpecRules   - PermutationPicker / VariantScopeRulesList / AddRuleModal*)
(*   SpecPicker  - the rule editor with edit, cancel and save buttons      *)
(*   SpecScopes  - stored rules under text edits and variant deletions     *)
(*   SpecStored  - stored results under edits and regeneration             *)
(*   SpecKpi     - calculate_high_level_kpis on a stored result            *)
(*   SpecCompare - the comparison of two stored results                    *)
(*   SpecPreview - generateRandomPreview of the template preview           *)
(*   SpecEditor  - the variants and split parts of the component editor    *)
(*   SpecBatch   - several deny rules added in one submission of the modal *)
(*   SpecPoll    - the result page polling a result that is processing     *)
(*   SpecComponentKpi - calculate_component_kpis on a stored result        *)
(* Variables a specification does not use stay at their idle value.        *)
(***************************************************************************)
EXTENDS Integers, Sequences, FiniteSets, TLC

VARIABLES
    \* ---- generator inputs and output (SpecGen, SpecIndex, SpecResults)
    components,      \* component_map: name -> [isSplit, splitParts, variants]
    templateText,    \* template text as a sequence of tokens
    variantScopes,   \* template.variantScopes: sequence of deny rules
    permFile,        \* rows of permutations_{template_name}.csv
    prevFile,        \* rows the previous generation wrote
    genInputs,       \* inputs the last generation ran on
    genCount,        \* number of generations run
    \* ---- regeneration in progress (SpecIndex, SpecResults)
    genPc,           \* per request: "idle" | "waiting" | "building"
    genRows,         \* per request: [inputs, rows] the request works on
    genStaged,       \* per request: rows built so far
    genLock,         \* request holding the template's generation lock, 0 if free
    lastWriter,      \* request whose output is the current permFile, 0 if none
    probe,           \* last read of the permutation file by a validation
    \* ---- results (SpecResults)
    templateState,   \* "present" | "deleted"
    resultsMeta,     \* results_metadata.csv: result id -> [status, error_message]
    resultFiles,     \* backend/data/results/: result id -> run records
    upload,          \* last upload: request, response and the error shown
    kpis,            \* the KPI object last computed (SpecKpi)
    comparison,      \* the comparison object last computed (SpecCompare)
    \* ---- deny-rule editor (SpecRules)
    localRules,      \* PermutationPicker.localRules
    savedScopes,     \* template.variantScopes as persisted by the server
    inflight,        \* rules of the PUT /api/templates/<id> not yet answered
    modal,           \* AddRuleModal: [open, variant1, variant2]
    lastAdd,         \* last add: whether the pair was present, and the effect
    isEditing,       \* components/PermutationPicker: the rules are being edited
    \* ---- pages of the frontend (SpecPreview, SpecEditor, SpecPoll)
    preview,         \* TemplatePreview: the selection drawn and previewText
    editor,          \* ComponentItem: the component being edited and saved
    page             \* ResultItem: the result fetched, its timer and view

genVars == <<components, templateText, variantScopes, permFile, prevFile,
             genInputs, genCount>>
idxVars == <<genPc, genRows, genStaged, genLock, lastWriter, probe>>
resVars == <<templateState, resultsMeta, resultFiles, upload, kpis,
             comparison>>
ruleVars == <<localRules, savedScopes, inflight, modal, lastAdd, isEditing>>
pageVars == <<preview, editor, page>>
vars == <<genVars, idxVars, resVars, ruleVars, pageVars>>

(***************************************************************************)
(* Bounds of the model.                                                    *)
(***************************************************************************)
MaxVariants == 3      \* variants per atomic component in SpecGen
MaxRules == 1         \* deny rules of a template in SpecGen
MaxGenerations == 2   \* generations per run of SpecGen

(***************************************************************************)
(* Sequence helpers.                                                       *)
(***************************************************************************)
Range(s) == {s[i] : i \in 1..Len(s)}

RECURSIVE Flatten(_)
Flatten(ss) == IF ss = <<>> THEN <<>> ELSE Head(ss) \o Flatten(Tail(ss))

Count(s, x) == Cardinality({i \in 1..Len(s) : s[i] = x})

SeqsUpTo(S, lo, hi) == UNION {[1..n -> S] : n \in lo..hi}

(***************************************************************************)
(* Components and templates.                                               *)
(***************************************************************************)
Content == {"x", "y"}
Atomic(vs) == [isSplit |-> FALSE, splitParts |-> <<>>, variants |-> vs]
Split(vs) == [isSplit |-> TRUE, splitParts |-> <<"p", "q">>, variants |-> vs]
SplitVariant == [p : Content, q : Content]

Txt(c) == [kind |-> "text", name |-> "", part |-> "", value |-> c]
Ph(n, p) == [kind |-> "ph", name |-> n, part |-> p, value |-> ""]

\* {{a}}-{{b}}
TemplateAB == <<Ph("a", ""), Txt("-"), Ph("b", "")>>
\* {{b}}-{{a}}{{b}}
TemplateBAB == <<Ph("b", ""), Txt("-"), Ph("a", ""), Ph("b", "")>>
\* {{c/p}}-{{b}}
TemplateCpB == <<Ph("c", "p"), Txt("-"), Ph("b", "")>>
\* {{c/p}}{{c/q}}-{{b}}
TemplateCpqB == <<Ph("c", "p"), Ph("c", "q"), Txt("-"), Ph("b", "")>>
\* static text only
TemplateStatic == <<Txt("-")>>
Templates == {TemplateAB, TemplateBAB, TemplateCpB, TemplateCpqB, TemplateStatic}

CompNames == {"a", "b", "c"}
CompRank(n) == CASE n = "a" -> 1 [] n = "b" -> 2 [] n = "c" -> 3 [] OTHER -> 4

DefaultComponents ==
    [a |-> Atomic(<<"x", "y">>),
     b |-> Atomic(<<"x", "y">>),
     c |-> Split(<<[p |-> "x", q |-> "x"], [p |-> "y", q |-> "y"]>>)]

(***************************************************************************)
(* Variant identifiers "ComponentName:variantIndex" are modelled as the    *)
(* pair <<ComponentName, variantIndex>>, the index counted from 0.         *)
(***************************************************************************)
VariantId(n, i) == <<n, i>>
Rule(x, y) == [variant1 |-> x, variant2 |-> y]
NoIndex == -1

(***************************************************************************)
(* Permutation generation.                                                 *)
(***************************************************************************)
\* The component names of a template, de-duplicated, by first occurrence.
RECURSIVE UniqueNames(_, _)
UniqueNames(tokens, seen) ==
    IF tokens = <<>> THEN <<>>
    ELSE LET t == Head(tokens)
         IN IF t.kind = "ph" /\ t.name \notin seen
            THEN <<t.name>> \o UniqueNames(Tail(tokens), seen \cup {t.name})
            ELSE UniqueNames(Tail(tokens), seen)

unique_component_names(text) == UniqueNames(text, {})

\* An enumeration with the first list varying fastest (not the order of
\* itertools.product).
RECURSIVE productFirstFastest(_)
productFirstFastest(lists) ==
    IF lists = <<>> THEN << <<>> >>
    ELSE LET n == Len(lists)
             init == productFirstFastest(SubSeq(lists, 1, n - 1))
             last == lists[n]
         IN Flatten([i \in 1..Len(last) |->
                       [j \in 1..Len(init) |-> init[j] \o <<last[i]>>]])

\* itertools.product(*variant_lists): tuples of variants, the last list
\* varying fastest.
RECURSIVE product(_)
product(lists) ==
    IF lists = <<>> THEN << <<>> >>
    ELSE LET rest == product(Tail(lists))
             head == Head(lists)
         IN Flatten([i \in 1..Len(head) |->
                       [j \in 1..Len(rest) |-> <<head[i]>> \o rest[j]]])

\* get_variant_index receives the variant's value, not its position: it
\* answers with the first position of the component holding that value.
get_variant_index(comp_name, variant, component_map) ==
    LET vs == component_map[comp_name].variants
        hits == {i \in 1..Len(vs) : vs[i] = variant}
    IN IF hits = {} THEN NoIndex
       ELSE (CHOOSE i \in hits : \A j \in hits : i <= j) - 1

is_combination_allowed(combination, component_names, scopes, component_map) ==
    IF scopes = <<>> THEN TRUE
    ELSE LET idx(k) == get_variant_index(component_names[k], combination[k],
                                         component_map)
             combination_variant_ids ==
                 {VariantId(component_names[k], idx(k)) :
                     k \in {j \in 1..Len(component_names) : idx(j) # NoIndex}}
         IN \A r \in Range(scopes) :
               ~(r.variant1 \in combination_variant_ids
                 /\ r.variant2 \in combination_variant_ids)

\* The selection of a combination: the JSON array [{name: variant}, ...].
SelectionOf(component_names, combination) ==
    [k \in 1..Len(component_names) |->
        [name |-> component_names[k], variant |-> combination[k]]]

VariantIn(selection, n) ==
    LET k == CHOOSE j \in 1..Len(selection) : selection[j].name = n
    IN selection[k].variant

\* The final text: every placeholder replaced by the selected variant
\* (atomic), or by its value at the named part (split).
render_template(text, selection) ==
    [k \in 1..Len(text) |->
        IF text[k].kind = "text" THEN text[k].value
        ELSE IF text[k].part = "" THEN VariantIn(selection, text[k].name)
        ELSE VariantIn(selection, text[k].name)[text[k].part]]

\* MD5 of the final text, modelled as a positional code of its characters:
\* one-to-one on the texts of the model.
HashBase == 5
CharCode(c) == CASE c = "x" -> 1 [] c = "y" -> 2 [] c = "z" -> 3 [] OTHER -> 4

RECURSIVE md5(_)
md5(text) ==
    IF text = <<>> THEN 0 ELSE CharCode(Head(text)) + HashBase * md5(Tail(text))

\* An id hashed from the selection's variants instead of the final text.
RECURSIVE SelectionCode(_)
SelectionCode(selection) ==
    IF selection = <<>> THEN 0
    ELSE LET v == Head(selection).variant
             c == IF Head(selection).name = "c"
                  THEN CharCode(v.p) + HashBase * CharCode(v.q)
                  ELSE CharCode(v)
         IN c + HashBase * HashBase * SelectionCode(Tail(selection))

permutation_id_of_selection(prompt, selection) == SelectionCode(selection)

permutation_id(prompt, selection) == md5(prompt)

\* A row whose final text has only the first occurrence of each placeholder
\* replaced, the later ones left as written.
MakeRowFirstOccurrence(text, component_names, combination) ==
    LET selection == SelectionOf(component_names, combination)
        full == render_template(text, selection)
        prompt == [k \in 1..Len(text) |->
                      IF \E j \in 1..(k - 1) : text[j] = text[k] /\ text[k].kind = "ph"
                      THEN "{{}}" ELSE full[k]]
    IN [id |-> permutation_id(prompt, selection), prompt |-> prompt,
        permutations |-> selection]

MakeRow(text, component_names, combination) ==
    LET selection == SelectionOf(component_names, combination)
        prompt == render_template(text, selection)
    IN [id |-> permutation_id(prompt, selection), prompt |-> prompt,
        permutations |-> selection]

generate_permutation_data(text, component_map, scopes) ==
    LET names == unique_component_names(text)
        variant_lists == [k \in 1..Len(names) |-> component_map[names[k]].variants]
        allowed == SelectSeq(product(variant_lists),
                             LAMBDA c : is_combination_allowed(c, names, scopes,
                                                               component_map))
    IN [k \in 1..Len(allowed) |-> MakeRow(text, names, allowed[k])]

(***************************************************************************)
(* Idle values of the variables a specification does not use.              *)
(***************************************************************************)
GenProcs == {1, 2}
NoJob == [inputs |-> <<>>, rows |-> <<>>]
NoProbe == [id |-> 0, accepted |-> FALSE, stale |-> FALSE, seen |-> <<>>,
            old |-> <<>>, new |-> <<>>, staged |-> <<>>]
NoUpload == [seq |-> 0, rows |-> <<>>, status |-> "none", details |-> <<>>,
             shown |-> <<>>]
\* A metric of the KPI object: a quotient num/den, no value, or the Python
\* exception the computation of the metric ended with.
Value(n, d) == [kind |-> "value", num |-> n, den |-> d]
NoMetric == [kind |-> "none", num |-> 0, den |-> 1]
ZeroDivisionError == [kind |-> "ZeroDivisionError", num |-> 0, den |-> 1]
NoHighLevel ==
    [pass_rate |-> NoMetric, zero_error_runs |-> NoMetric,
     median |-> NoMetric, average |-> NoMetric, max |-> NoMetric,
     min |-> NoMetric, histogram |-> <<>>,
     median_tool_calls |-> NoMetric, forbidden_tool_call_rate |-> NoMetric]
NoKpis == [status |-> "none", error_message |-> "", high_level |-> NoHighLevel]
NoDifference == [absolute |-> NoMetric, percentage |-> NoMetric]
NoComparison ==
    [status |-> "none", indicator |-> "none",
     differences |-> [pass_rate |-> NoDifference,
                      zero_error_runs |-> NoDifference,
                      forbidden_tool_call_rate |-> NoDifference]]
NoModal == [open |-> FALSE, variant1 |-> <<>>, variant2 |-> <<>>]
NoAdd == [attempted |-> FALSE, present |-> FALSE, reversed |-> FALSE,
          changed |-> FALSE]

IdleIdx ==
    /\ genPc = [p \in GenProcs |-> "idle"]
    /\ genRows = [p \in GenProcs |-> NoJob]
    /\ genStaged = [p \in GenProcs |-> <<>>]
    /\ genLock = 0
    /\ lastWriter = 0
    /\ probe = NoProbe

IdleRes ==
    /\ templateState = "present"
    /\ resultsMeta = <<>>
    /\ resultFiles = <<>>
    /\ upload = NoUpload
    /\ kpis = NoKpis
    /\ comparison = NoComparison

NoPreview == [status |-> "none", selected |-> <<>>, previewText |-> <<>>]
NoCall == [op |-> "none", size |-> 0, before |-> 0, sent |-> FALSE,
           unchanged |-> TRUE]
NoEditor == [name |-> "", isSplit |-> FALSE, splitParts |-> <<>>,
             variants |-> <<>>, error |-> "", puts |-> <<>>, last |-> NoCall]
NoPage ==
    [status |-> "none", loading |-> FALSE, error |-> FALSE, timer |-> FALSE,
     fetches |-> <<>>, issued |-> "none", settled |-> FALSE]

IdlePages ==
    /\ preview = NoPreview
    /\ editor = NoEditor
    /\ page = NoPage

IdleRules ==
    /\ localRules = <<>>
    /\ savedScopes = <<>>
    /\ inflight = <<>>
    /\ modal = NoModal
    /\ lastAdd = NoAdd
    /\ isEditing = FALSE

(***************************************************************************)
(* SpecGen: generate_permutation_data applied to inputs drawn from bounded *)
(* sets of templates, components and deny rules.                           *)
(***************************************************************************)
IdRank(id) == CompRank(id[1]) * 10 + id[2]
RuleRank(r) == IdRank(r.variant1) * 100 + IdRank(r.variant2)

VariantIds(names, component_map) ==
    {VariantId(n, i) : n \in names, i \in 0..MaxVariants} \cap
    {id \in CompNames \X (0..MaxVariants) :
        id[2] < Len(component_map[id[1]].variants)}

\* Rules between variants of two different components of the template,
\* the earlier component first.
CrossRules(names, component_map) ==
    {Rule(x, y) : x \in VariantIds(names, component_map),
                  y \in VariantIds(names, component_map)} \cap
    {r \in [variant1 : CompNames \X (0..MaxVariants),
            variant2 : CompNames \X (0..MaxVariants)] :
        CompRank(r.variant1[1]) < CompRank(r.variant2[1])}

RuleLists(S, n) ==
    {s \in SeqsUpTo(S, 0, n) :
        \A i, j \in 1..Len(s) : i < j => RuleRank(s[i]) < RuleRank(s[j])}

ComponentMaps(used) ==
    {[a |-> Atomic(va), b |-> Atomic(vb), c |-> Split(vc)] :
        va \in IF "a" \in used
               THEN SeqsUpTo(Content, 2, MaxVariants) \cup {<<"x", "y", "z">>}
               ELSE {DefaultComponents.a.variants},
        vb \in IF "b" \in used THEN [1..2 -> Content]
               ELSE {DefaultComponents.b.variants},
        vc \in IF "c" \in used THEN [1..2 -> SplitVariant]
               ELSE {DefaultComponents.c.variants}}

Inputs == [text |-> templateText, components |-> components,
           scopes |-> variantScopes]

GenInit ==
    /\ templateText \in Templates
    /\ components \in ComponentMaps(Range(unique_component_names(templateText)))
    /\ variantScopes \in
          RuleLists(CrossRules(Range(unique_component_names(templateText)),
                               components), MaxRules)
    /\ permFile = <<>>
    /\ prevFile = <<>>
    /\ genInputs = <<>>
    /\ genCount = 0
    /\ IdleIdx /\ IdleRes /\ IdleRules /\ IdlePages

\* POST /api/templates/<id>/generate: the permutation file is replaced by
\* the rows generated from the current template, components and rules.
ApplyGenerate ==
    /\ genCount < MaxGenerations
    /\ prevFile' = permFile
    /\ permFile' = generate_permutation_data(templateText, components,
                                             variantScopes)
    /\ genInputs' = Append(genInputs, Inputs)
    /\ genCount' = genCount + 1
    /\ UNCHANGED <<components, templateText, variantScopes>>
    /\ UNCHANGED <<idxVars, resVars, ruleVars, pageVars>>

RemoveAt(s, i) == SubSeq(s, 1, i - 1) \o SubSeq(s, i + 1, Len(s))

\* A deny rule is deleted and the template saved (PUT /api/templates/<id>).
DeleteScopeRule(i) ==
    /\ i \in 1..Len(variantScopes)
    /\ variantScopes' = RemoveAt(variantScopes, i)
    /\ UNCHANGED <<components, templateText, permFile, prevFile, genInputs,
                   genCount>>
    /\ UNCHANGED <<idxVars, resVars, ruleVars, pageVars>>

GenNext ==
    \/ ApplyGenerate
    \/ \E i \in 1..MaxRules : DeleteScopeRule(i)

SpecGen == GenInit /\ [][GenNext]_vars

(***************************************************************************)
(* Reference definitions the generator's output is compared with.          *)
(***************************************************************************)
\* The inputs the current permutation file was generated from.
LastInputs == genInputs[genCount]

\* The product V1 x ... x Vk by position: one 0-based index per component.
IndexTuples(names, component_map) ==
    {t \in [1..Len(names) -> 0..(MaxVariants - 1)] :
        \A k \in 1..Len(names) : t[k] < Len(component_map[names[k]].variants)}

TupleIds(t, names) == {VariantId(names[k], t[k]) : k \in 1..Len(names)}

TupleAllowed(t, names, scopes) ==
    \A r \in Range(scopes) :
        ~(r.variant1 \in TupleIds(t, names) /\ r.variant2 \in TupleIds(t, names))

TupleSelection(t, names, component_map) ==
    [k \in 1..Len(names) |->
        [name |-> names[k],
         variant |-> component_map[names[k]].variants[t[k] + 1]]]

Selections(file) == [k \in 1..Len(file) |-> file[k].permutations]

DistinctContents(component_map, names) ==
    \A n \in Range(names) :
        \A i, j \in 1..Len(component_map[n].variants) :
            i # j => component_map[n].variants[i] # component_map[n].variants[j]

\* C1: the generator returns exactly the tuples of V1 x ... x Vk in which no
\* rule has both of its variant identifiers present, each exactly once: for
\* every tuple of the product, the rows of the file carrying its selection
\* are as many as the allowed tuples of the product with that selection.
C1_ExactlyTheAllowedTuples ==
    genCount >= 1 =>
        LET names == unique_component_names(LastInputs.text)
            cm == LastInputs.components
            tuples == IndexTuples(names, cm)
        IN \A t \in tuples :
              Count(Selections(permFile), TupleSelection(t, names, cm)) =
              Cardinality({u \in tuples :
                  /\ TupleAllowed(u, names, LastInputs.scopes)
                  /\ TupleSelection(u, names, cm) = TupleSelection(t, names, cm)})

\* C1 restricted to components whose variants are pairwise different.
C1_OnDistinctContents ==
    (genCount >= 1 /\ DistinctContents(LastInputs.components,
                                       unique_component_names(LastInputs.text)))
        => C1_ExactlyTheAllowedTuples

\* C1, the example: a (3 variants) x b (2 variants), one rule (a:0, b:1),
\* yields 5 permutations.
C1_ExampleReached ==
    /\ genCount >= 1
    /\ LastInputs.text = TemplateAB
    /\ LastInputs.components.a.variants = <<"x", "y", "z">>
    /\ LastInputs.scopes = <<Rule(VariantId("a", 0), VariantId("b", 1))>>
    /\ Len(permFile) = 5

C6_SameIdIffSameText ==
    \A r1, r2 \in Range(permFile) \cup Range(prevFile) :
        (r1.id = r2.id) <=> (r1.prompt = r2.prompt)

\* C6 reached: one text produced by two selections, the same text at two
\* positions of two generations, and two different texts.
C6_SameTextDifferentSelectionAndPosition ==
    /\ \E r1, r2 \in Range(permFile) :
          r1.prompt = r2.prompt /\ r1.permutations # r2.permutations
    /\ \E i \in 1..Len(prevFile), j \in 1..Len(permFile) :
          i # j /\ prevFile[i].prompt = permFile[j].prompt
                /\ prevFile[i].id = permFile[j].id
    /\ \E r1, r2 \in Range(permFile) : r1.prompt # r2.prompt /\ r1.id # r2.id

\* The rank of an index tuple in the lexicographic order over the component
\* list: its value as a mixed-radix numeral, first component most significant.
RECURSIVE LexRank(_, _, _, _)
LexRank(t, names, component_map, k) ==
    IF k = 0 THEN 0
    ELSE LexRank(t, names, component_map, k - 1)
             * Len(component_map[names[k]].variants) + t[k]

\* names lists the components a text references, by first occurrence.
FirstPos(text, n) ==
    CHOOSE i \in 1..Len(text) :
        /\ text[i].kind = "ph" /\ text[i].name = n
        /\ \A j \in 1..(i - 1) : ~(text[j].kind = "ph" /\ text[j].name = n)

InOccurrenceOrder(names, text) ==
    /\ Range(names) = {text[i].name : i \in {j \in 1..Len(text) : text[j].kind = "ph"}}
    /\ \A i, j \in 1..Len(names) :
          i < j => FirstPos(text, names[i]) < FirstPos(text, names[j])

\* The allowed selections in lexicographic order of their index tuples.
LexSelections(names, component_map, scopes) ==
    LET tuples == IndexTuples(names, component_map)
        sorted == [r \in 1..Cardinality(tuples) |->
                      CHOOSE t \in tuples :
                          LexRank(t, names, component_map, Len(names)) = r - 1]
        sels == [r \in 1..Len(sorted) |->
                    TupleSelection(sorted[r], names, component_map)]
    IN SelectSeq(sels, LAMBDA sel :
           is_combination_allowed([k \in 1..Len(sel) |-> sel[k].variant],
                                  names, scopes, component_map))

MaxRegenerations == 3     \* replacements of the permutation file per run

Ids(file) == {file[k].id : k \in 1..Len(file)}

\* The rows a reader of permutations_{template_name}.csv gets while a
\* request holds `staged` rows it has built so far: the file as last replaced.
ReadPermutationFileInPlace(file, staged) ==
    IF staged # <<>> THEN staged ELSE file

ReadPermutationFile(file, staged) == file

\* A generation that appends its rows to the file it finds.
append_permutation_file(old, new) == old \o new

\* "The latest generation replaces the old one."
replace_permutation_file(old, new) == new

\* "Verify that all permutation_item_id values exist in the permutation file."
permutation_id_exists(id, file) == id \in Ids(file)

IdxInit ==
    /\ templateText = TemplateAB
    /\ components = DefaultComponents
    /\ variantScopes = <<Rule(VariantId("a", 0), VariantId("b", 1))>>
    /\ permFile = <<>>
    /\ prevFile = <<>>
    /\ genInputs = <<>>
    /\ genCount = 0
    /\ IdleIdx /\ IdleRes /\ IdleRules /\ IdlePages

\* PUT /api/components/<id>/variants/<variant_id>: the second variant of
\* component b gets a new content.
EditVariant(v) ==
    /\ components.b.variants[2] # v
    /\ components' = [components EXCEPT !.b.variants[2] = v]
    /\ UNCHANGED <<templateText, variantScopes, permFile, prevFile, genInputs,
                   genCount>>
    /\ UNCHANGED <<idxVars, resVars, ruleVars, pageVars>>

\* POST /api/templates/<id>/generate arrives.
GenRequest(p) ==
    /\ genPc[p] = "idle"
    /\ genCount + Cardinality({q \in GenProcs : genPc[q] # "idle"})
          < MaxRegenerations
    /\ genPc' = [genPc EXCEPT ![p] = "waiting"]
    /\ UNCHANGED <<genRows, genStaged, genLock, lastWriter, probe>>
    /\ UNCHANGED <<genVars, resVars, ruleVars, pageVars>>

\* The request becomes the template's single writer and reads its inputs.
GenBegin(p) ==
    /\ genPc[p] = "waiting"
    /\ genLock = 0
    /\ genLock' = p
    /\ genPc' = [genPc EXCEPT ![p] = "building"]
    /\ genRows' = [genRows EXCEPT ![p] =
          [inputs |-> Inputs,
           rows |-> generate_permutation_data(templateText, components,
                                              variantScopes)]]
    /\ genStaged' = [genStaged EXCEPT ![p] = <<>>]
    /\ UNCHANGED <<lastWriter, probe>>
    /\ UNCHANGED <<genVars, resVars, ruleVars, pageVars>>

\* The writer builds the next row of the new file.
GenBuild(p) ==
    /\ genPc[p] = "building"
    /\ Len(genStaged[p]) < Len(genRows[p].rows)
    /\ genStaged' = [genStaged EXCEPT ![p] =
          Append(@, genRows[p].rows[Len(@) + 1])]
    /\ UNCHANGED <<genPc, genRows, genLock, lastWriter, probe>>
    /\ UNCHANGED <<genVars, resVars, ruleVars, pageVars>>

\* The complete new file replaces the old one in one step.
GenSwap(p) ==
    /\ genPc[p] = "building"
    /\ Len(genStaged[p]) = Len(genRows[p].rows)
    /\ prevFile' = permFile
    /\ permFile' = replace_permutation_file(permFile, genStaged[p])
    /\ genInputs' = Append(genInputs, genRows[p].inputs)
    /\ genCount' = genCount + 1
    /\ lastWriter' = p
    /\ genLock' = 0
    /\ genPc' = [genPc EXCEPT ![p] = "idle"]
    /\ genStaged' = [genStaged EXCEPT ![p] = <<>>]
    /\ UNCHANGED <<genRows, probe>>
    /\ UNCHANGED <<components, templateText, variantScopes>>
    /\ UNCHANGED <<resVars, ruleVars, pageVars>>

\* The ids a validation is asked about: those of the current and of the
\* previous generation.
KnownIds == Ids(permFile) \cup Ids(prevFile)

\* validate_result_csv reads the template's permutation file and looks one
\* permutation_item_id up in it.
ValidateId(id) ==
    /\ genCount >= 1
    /\ LET staged == IF genLock = 0 THEN <<>> ELSE genStaged[genLock]
           file == ReadPermutationFile(permFile, staged)
           current == generate_permutation_data(LastInputs.text,
                          LastInputs.components, LastInputs.scopes)
       IN probe' = [id |-> id,
                    accepted |-> permutation_id_exists(id, file),
                    stale |-> id \in Ids(prevFile) /\ id \notin Ids(current),
                    seen |-> file,
                    old |-> current,
                    new |-> IF genLock = 0 THEN current
                            ELSE genRows[genLock].rows,
                    staged |-> staged]
    /\ UNCHANGED <<genPc, genRows, genStaged, genLock, lastWriter>>
    /\ UNCHANGED <<genVars, resVars, ruleVars, pageVars>>

IdxNext ==
    \/ \E v \in Content : EditVariant(v)
    \/ \E p \in GenProcs : GenRequest(p)
    \/ \E p \in GenProcs : GenBegin(p)
    \/ \E p \in GenProcs : GenBuild(p)
    \/ \E p \in GenProcs : GenSwap(p)
    \/ \E id \in KnownIds : ValidateId(id)

SpecIndex == IdxInit /\ [][IdxNext]_vars

\* C3: a reader of the permutation file during a regeneration gets the
\* complete previous file or the complete new one, at most one request
\* builds at a time, and the file left behind is the complete output of the
\* one request that wrote it last.
C3_ReadersSeeACompleteIndex ==
    /\ probe.seen \in {probe.old, probe.new}
    /\ Cardinality({p \in GenProcs : genPc[p] = "building"}) <= 1
    /\ genCount >= 1 =>
          /\ lastWriter \in GenProcs
          /\ permFile = generate_permutation_data(LastInputs.text,
                            LastInputs.components, LastInputs.scopes)

\* C3 reached: a validation read the file while a request had built a part
\* of a different new file and the other request was waiting.
C3_ReadDuringRegeneration ==
    /\ probe.staged # <<>>
    /\ Len(probe.staged) < Len(probe.new)
    /\ probe.old # probe.new
    /\ probe.seen = probe.old
    /\ \E p \in GenProcs : genPc[p] = "waiting"

MaxUploads == 2      \* uploads per run

ResIndex == generate_permutation_data(TemplateAB, DefaultComponents, <<>>)

\* The id of a text no permutation of the template has.
UnknownId == md5(<<"z">>)

\* Rows of a result CSV: valid values and one invalid value per column.
ResultRows ==
    [permutation_item_id : {ResIndex[1].id, UnknownId},
     run_id : {1, 0},
     test_array : {<<1, 0>>, <<1, 2>>},
     forbidden_tool_calls : {0, -1}]

Payloads == SeqsUpTo(ResultRows, 1, 2)

FieldOrder == <<"run_id", "test_array", "forbidden_tool_calls",
                "permutation_item_id">>

field_error(row, f, file) ==
    CASE f = "run_id" -> ~(row.run_id >= 1)
      [] f = "test_array" ->
            \E k \in 1..Len(row.test_array) : row.test_array[k] \notin {0, 1}
      [] f = "forbidden_tool_calls" -> ~(row.forbidden_tool_calls >= 0)
      [] f = "permutation_item_id" ->
            ~permutation_id_exists(row.permutation_item_id, file)

\* validate_result_csv: (is_valid, errors), the errors of every row and
\* column in the order met.
validate_result_csv(rows, file) ==
    Flatten([i \in 1..Len(rows) |->
        LET bad == SelectSeq(FieldOrder,
                             LAMBDA f : field_error(rows[i], f, file))
        IN [k \in 1..Len(bad) |-> [row |-> i, field |-> bad[k]]]])

\* A handler that saves the rows without an error and drops the others.
persisted_valid_rows(rows, errors) ==
    LET bad == {errors[k].row : k \in 1..Len(errors)}
        idx == SelectSeq([i \in 1..Len(rows) |-> i], LAMBDA i : i \notin bad)
    IN [k \in 1..Len(idx) |-> rows[idx[k]]]

\* The rows POST /api/results/upload saves: all of them after a validation
\* without errors, none otherwise.
persisted_rows(rows, errors) == IF errors = <<>> THEN rows ELSE <<>>

Piece(t) == [row |-> 0, field |-> t]

RECURSIVE Join(_, _)
Join(details, sep) ==
    IF Len(details) <= 1 THEN details
    ELSE <<Head(details), sep>> \o Join(Tail(details), sep)

\* An error text holding the first detail only.
errorMessageFirstDetail(message, details) ==
    IF details = <<>> THEN <<Piece(message)>>
    ELSE <<Piece(message), Piece(": "), Head(details)>>

\* useResultUpload.upload, catch: `${err.message}: ${err.details.join(', ')}`.
errorMessage(message, details) ==
    IF details = <<>> THEN <<Piece(message)>>
    ELSE <<Piece(message), Piece(": ")>> \o Join(details, Piece(", "))

ResInit ==
    /\ templateText = TemplateAB
    /\ components = DefaultComponents
    /\ variantScopes = <<>>
    /\ permFile = ResIndex
    /\ prevFile = <<>>
    /\ genInputs = <<Inputs>>
    /\ genCount = 1
    /\ templateState = "present"
    /\ resultsMeta = <<>>
    /\ resultFiles = <<>>
    /\ upload = NoUpload
    /\ kpis = NoKpis
    /\ comparison = NoComparison
    /\ IdleIdx /\ IdleRules /\ IdlePages

\* POST /api/results/upload followed by the page's handling of the answer.
Upload(rows) ==
    /\ upload.seq < MaxUploads
    /\ IF templateState # "present"
       THEN /\ upload' = [seq |-> upload.seq + 1, rows |-> rows,
                          status |-> "not_found", details |-> <<>>,
                          shown |-> errorMessage("Template not found", <<>>)]
            /\ UNCHANGED <<resultsMeta, resultFiles>>
       ELSE LET errors == validate_result_csv(rows, permFile)
                saved == persisted_rows(rows, errors)
            IN IF saved = <<>>
               THEN /\ upload' = [seq |-> upload.seq + 1, rows |-> rows,
                                  status |-> "rejected", details |-> errors,
                                  shown |-> errorMessage("Validation failed",
                                                         errors)]
                    /\ UNCHANGED <<resultsMeta, resultFiles>>
               ELSE /\ resultFiles' = Append(resultFiles, saved)
                    /\ resultsMeta' = Append(resultsMeta,
                           [status |-> "processing", error_message |-> ""])
                    /\ upload' = [seq |-> upload.seq + 1, rows |-> rows,
                                  status |-> "created", details |-> <<>>,
                                  shown |-> <<>>]
    /\ UNCHANGED templateState
    /\ UNCHANGED <<genVars, idxVars, ruleVars, kpis, comparison, pageVars>>

\* calculate_all_kpis: "updates metadata status to 'ready' on success,
\* 'error' on failure"; it fails when the template of the result, from which
\* the permutation file is found, is gone.
calculate_all_kpis(meta) ==
    IF templateState = "present"
    THEN [status |-> "ready", error_message |-> ""]
    ELSE [status |-> "error", error_message |-> "Template not found"]

\* GET /api/results/<result_id>.
GetResult(i) ==
    /\ i \in 1..Len(resultsMeta)
    /\ resultsMeta[i].status \in {"processing", "ready"}
    /\ resultsMeta' = [resultsMeta EXCEPT ![i] = calculate_all_kpis(@)]
    /\ UNCHANGED <<templateState, resultFiles, upload>>
    /\ UNCHANGED <<genVars, idxVars, ruleVars, kpis, comparison, pageVars>>

\* GET /api/results/<result_id>/compare/<result_id2>.
CompareResults(i, j) ==
    /\ i \in 1..Len(resultsMeta) /\ j \in 1..Len(resultsMeta) /\ i # j
    /\ resultsMeta[i].status # "deleted" /\ resultsMeta[j].status # "deleted"
    /\ resultsMeta' = [k \in 1..Len(resultsMeta) |->
          IF k \in {i, j} THEN calculate_all_kpis(resultsMeta[k])
          ELSE resultsMeta[k]]
    /\ UNCHANGED <<templateState, resultFiles, upload>>
    /\ UNCHANGED <<genVars, idxVars, ruleVars, kpis, comparison, pageVars>>

\* DELETE /api/results/<result_id>.
DeleteResult(i) ==
    /\ i \in 1..Len(resultsMeta)
    /\ resultsMeta[i].status # "deleted"
    /\ resultsMeta' = [resultsMeta EXCEPT ![i] =
          [status |-> "deleted", error_message |-> ""]]
    /\ resultFiles' = [resultFiles EXCEPT ![i] = <<>>]
    /\ UNCHANGED <<templateState, upload>>
    /\ UNCHANGED <<genVars, idxVars, ruleVars, kpis, comparison, pageVars>>

\* DELETE /api/templates/<id>.
DeleteTemplate ==
    /\ templateState = "present"
    /\ templateState' = "deleted"
    /\ UNCHANGED <<resultsMeta, resultFiles, upload>>
    /\ UNCHANGED <<genVars, idxVars, ruleVars, kpis, comparison, pageVars>>

ResNext ==
    \/ \E rows \in Payloads : Upload(rows)
    \/ \E i \in 1..MaxUploads : GetResult(i)
    \/ \E i, j \in 1..MaxUploads : CompareResults(i, j)
    \/ \E i \in 1..MaxUploads : DeleteResult(i)
    \/ DeleteTemplate

SpecResults == ResInit /\ [][ResNext]_vars

\* The violations of a payload: every row and column whose value is outside
\* its domain, or whose permutation id is not in the permutation file.
Violations(rows) ==
    {v \in [row : 1..Len(rows), field : Range(FieldOrder)] :
        \/ v.field = "run_id" /\ rows[v.row].run_id < 1
        \/ v.field = "test_array"
              /\ Range(rows[v.row].test_array) \ {0, 1} # {}
        \/ v.field = "forbidden_tool_calls"
              /\ rows[v.row].forbidden_tool_calls < 0
        \/ v.field = "permutation_item_id"
              /\ rows[v.row].permutation_item_id \notin Ids(permFile)}

C8_StatusLifecycle ==
    [][/\ Len(resultsMeta') > Len(resultsMeta) =>
             resultsMeta'[Len(resultsMeta')].status = "processing"
       /\ \A i \in 1..Len(resultsMeta) :
             LET s == resultsMeta[i].status
                 t == resultsMeta'[i].status
             IN /\ s = "processing" =>
                       t \in {"processing", "ready", "error", "deleted"}
                /\ s = "ready" => t \in {"ready", "deleted"}
                /\ s = "error" => t \in {"error", "deleted"}
                /\ t = "error" => resultsMeta'[i].error_message # ""
                /\ (s = "ready" /\ t = "ready") =>
                       resultFiles'[i] = resultFiles[i]]_vars

MaxInflight == 2     \* PUT requests on their way

\* The variants the modal lists: a:0, b:0 and b:1.
EditorIds == {VariantId("a", 0), VariantId("b", 0), VariantId("b", 1)}

\* A key that keeps the order the two variants were given in.
RuleKeyAsGiven(variant1Id, variant2Id) == <<variant1Id, variant2Id>>

\* [variant1Id, variant2Id].sort().join('|')
RuleKey(variant1Id, variant2Id) ==
    IF IdRank(variant1Id) <= IdRank(variant2Id)
    THEN <<variant1Id, variant2Id>>
    ELSE <<variant2Id, variant1Id>>

isDuplicate(rules, variant1Id, variant2Id) ==
    \E k \in 1..Len(rules) :
        RuleKey(rules[k].variant1, rules[k].variant2)
            = RuleKey(variant1Id, variant2Id)

\* AddRuleModal: the variants offered as second variant for a primary one.
availableVariants2(variant1Id, existingRules) ==
    {v \in EditorIds :
        /\ v[1] # variant1Id[1]
        /\ ~isDuplicate(existingRules, variant1Id, v)}

RulesInit ==
    /\ templateText = TemplateAB
    /\ components = DefaultComponents
    /\ variantScopes = <<>>
    /\ permFile = <<>>
    /\ prevFile = <<>>
    /\ genInputs = <<>>
    /\ genCount = 0
    /\ localRules = <<>>
    /\ savedScopes = <<>>
    /\ inflight = <<>>
    /\ modal = NoModal
    /\ lastAdd = NoAdd
    /\ isEditing = FALSE
    /\ IdleIdx /\ IdleRes /\ IdlePages

\* The add button of the rules list.
OpenModal ==
    /\ ~modal.open
    /\ modal' = [open |-> TRUE, variant1 |-> <<>>, variant2 |-> <<>>]
    /\ UNCHANGED <<localRules, savedScopes, inflight, lastAdd>>
    /\ UNCHANGED <<genVars, idxVars, resVars, isEditing, pageVars>>

\* The user picks a primary variant and one of the variants offered for it.
SelectVariants(v1, v2) ==
    /\ modal.open
    /\ v2 \in availableVariants2(v1, localRules)
    /\ modal' = [open |-> TRUE, variant1 |-> v1, variant2 |-> v2]
    /\ UNCHANGED <<localRules, savedScopes, inflight, lastAdd>>
    /\ UNCHANGED <<genVars, idxVars, resVars, isEditing, pageVars>>

\* AddRuleModal.handleAdd -> VariantScopeRulesList.handleAddRule ->
\* PermutationPicker.handleAddRule -> onSave, then the modal closes.
SubmitAdd ==
    /\ modal.open /\ modal.variant1 # <<>>
    /\ Len(inflight) < MaxInflight
    /\ LET v1 == modal.variant1
           v2 == modal.variant2
           alerted == isDuplicate(localRules, v1, v2)
           newRules == IF alerted \/ isDuplicate(localRules, v1, v2)
                       THEN localRules
                       ELSE Append(localRules, Rule(v1, v2))
       IN /\ localRules' = newRules
          /\ inflight' = IF newRules = localRules THEN inflight
                         ELSE Append(inflight, newRules)
          /\ lastAdd' = [attempted |-> TRUE,
                         present |-> \E r \in Range(localRules) :
                                        {r.variant1, r.variant2} = {v1, v2},
                         reversed |-> Rule(v2, v1) \in Range(localRules),
                         changed |-> newRules # localRules]
    /\ modal' = NoModal
    /\ UNCHANGED savedScopes
    /\ UNCHANGED <<genVars, idxVars, resVars, isEditing, pageVars>>

\* PermutationPicker.handleDeleteRule -> onSave.
DeleteRule(index) ==
    /\ index \in 1..Len(localRules)
    /\ Len(inflight) < MaxInflight
    /\ localRules' = RemoveAt(localRules, index)
    /\ inflight' = Append(inflight, RemoveAt(localRules, index))
    /\ UNCHANGED <<savedScopes, modal, lastAdd>>
    /\ UNCHANGED <<genVars, idxVars, resVars, isEditing, pageVars>>

\* A PUT /api/templates/<id> is handled and answered, in any order among the
\* requests on their way: the server stores the rules, useTemplate does
\* setTemplate(updatedTemplate), and PermutationPicker's effect takes
\* template.variantScopes as localRules.
SaveAnswered(k) ==
    /\ k \in 1..Len(inflight)
    /\ savedScopes' = inflight[k]
    /\ localRules' = inflight[k]
    /\ inflight' = RemoveAt(inflight, k)
    /\ UNCHANGED <<modal, lastAdd>>
    /\ UNCHANGED <<genVars, idxVars, resVars, isEditing, pageVars>>

\* useTemplate.saveVariantScopes fails: the request is lost, the error thrown.
SaveFailed(k) ==
    /\ k \in 1..Len(inflight)
    /\ inflight' = RemoveAt(inflight, k)
    /\ UNCHANGED <<localRules, savedScopes, modal, lastAdd>>
    /\ UNCHANGED <<genVars, idxVars, resVars, isEditing, pageVars>>

RulesNext ==
    \/ OpenModal
    \/ \E v1, v2 \in EditorIds : SelectVariants(v1, v2)
    \/ SubmitAdd
    \/ \E i \in 1..Len(localRules) : DeleteRule(i)
    \/ \E k \in 1..MaxInflight : SaveAnswered(k)
    \/ \E k \in 1..MaxInflight : SaveFailed(k)

SpecRules == RulesInit /\ [][RulesNext]_vars

UnorderedPair(rule) == {rule.variant1, rule.variant2}

NoDuplicateRules(rules) ==
    \A i, j \in 1..Len(rules) :
        i # j => UnorderedPair(rules[i]) # UnorderedPair(rules[j])

\* C10: the rule list of the editor, the lists sent to the server and the
\* list the server stores never hold two rules equal as unordered pairs, and
\* adding (x,y) while (x,y) or (y,x) is present leaves the list unchanged.
C10_NoDuplicateRules ==
    /\ NoDuplicateRules(localRules)
    /\ NoDuplicateRules(savedScopes)
    /\ \A k \in 1..Len(inflight) : NoDuplicateRules(inflight[k])
    /\ (lastAdd.attempted /\ lastAdd.present) => ~lastAdd.changed

\* C10 reached: (y,x) was added while (x,y) was present, and the list stayed
\* as it was, holding two rules.
C10_ReversedPairRefused ==
    /\ lastAdd.attempted /\ lastAdd.reversed /\ ~lastAdd.changed
    /\ Len(localRules) = 2
    /\ ~modal.open

(***************************************************************************)
(* SpecPicker: the deny-rule editor built from components/PermutationPicker*)
(* (edit, cancel, save), components/VariantScopeRulesList and              *)
(* components/AddRuleModal, whose two selects both offer every variant of  *)
(* the template's components. The PUT is validated by                      *)
(* validate_variant_scopes: array format, and references to components and *)
(* variants used in the template.                                          *)
(***************************************************************************)
MaxPickerRules == 2   \* rules the editor holds in SpecPicker

PickerInit ==
    /\ RulesInit

\* PermutationPicker.handleStartEdit (the pencil button).
handleStartEdit ==
    /\ ~isEditing
    /\ isEditing' = TRUE
    /\ UNCHANGED <<localRules, savedScopes, inflight, modal, lastAdd>>
    /\ UNCHANGED <<genVars, idxVars, resVars, pageVars>>

\* The add button of VariantScopeRulesList, shown while editing.
setIsModalOpen ==
    /\ isEditing /\ ~modal.open
    /\ modal' = [open |-> TRUE, variant1 |-> <<>>, variant2 |-> <<>>]
    /\ UNCHANGED <<localRules, savedScopes, inflight, lastAdd, isEditing>>
    /\ UNCHANGED <<genVars, idxVars, resVars, pageVars>>

\* components/AddRuleModal.handleAdd: both selected and variant1 !== variant2.
handleAddAccepts(variant1, variant2) ==
    /\ variant1 # <<>> /\ variant2 # <<>>
    /\ variant1 # variant2

\* VariantScopeRulesList.handleAddRule, then PermutationPicker.handleAddRule.
handleAddRule(rules, variant1Id, variant2Id) ==
    IF isDuplicate(rules, variant1Id, variant2Id)
    THEN rules
    ELSE Append(rules, Rule(variant1Id, variant2Id))

\* The user selects two variants in the modal and presses Add.
handleAdd(variant1, variant2) ==
    /\ isEditing /\ modal.open
    /\ Len(localRules) < MaxPickerRules
    /\ IF handleAddAccepts(variant1, variant2)
       THEN /\ localRules' = handleAddRule(localRules, variant1, variant2)
            /\ modal' = NoModal
       ELSE /\ modal' = [open |-> TRUE, variant1 |-> variant1,
                         variant2 |-> variant2]
            /\ UNCHANGED localRules
    /\ UNCHANGED <<savedScopes, inflight, lastAdd, isEditing>>
    /\ UNCHANGED <<genVars, idxVars, resVars, pageVars>>

\* PermutationPicker.handleDeleteRule.
handleDeleteRule(index) ==
    /\ isEditing
    /\ index \in 1..Len(localRules)
    /\ localRules' = RemoveAt(localRules, index)
    /\ UNCHANGED <<savedScopes, inflight, modal, lastAdd, isEditing>>
    /\ UNCHANGED <<genVars, idxVars, resVars, pageVars>>

\* PermutationPicker.handleCancel: back to the template's rules.
handleCancel ==
    /\ isEditing /\ inflight = <<>>
    /\ localRules' = savedScopes
    /\ isEditing' = FALSE
    /\ modal' = NoModal
    /\ UNCHANGED <<savedScopes, inflight, lastAdd>>
    /\ UNCHANGED <<genVars, idxVars, resVars, pageVars>>

\* PermutationPicker.handleSave -> useTemplate.saveVariantScopes.
handleSave ==
    /\ isEditing /\ inflight = <<>>
    /\ inflight' = <<localRules>>
    /\ isEditing' = FALSE
    /\ modal' = NoModal
    /\ UNCHANGED <<localRules, savedScopes, lastAdd>>
    /\ UNCHANGED <<genVars, idxVars, resVars, pageVars>>

PickerNext ==
    \/ handleStartEdit
    \/ setIsModalOpen
    \/ \E v1, v2 \in EditorIds : handleAdd(v1, v2)
    \/ \E i \in 1..MaxPickerRules : handleDeleteRule(i)
    \/ handleCancel
    \/ handleSave
    \/ SaveAnswered(1)
    \/ SaveFailed(1)

SpecPicker == PickerInit /\ [][PickerNext]_vars

SameComponent(rule) == rule.variant1[1] = rule.variant2[1]

\* C11: no rule stored for the template through the rule editor has two
\* variant identifiers of one component (such as b:0 with b:1).
C11_NoSameComponentRule ==
    \A r \in Range(savedScopes) : ~SameComponent(r)

(***************************************************************************)
(* SpecScopes: the stored deny rules of a template while its text and the  *)
(* variants of its components are edited. PUT /api/templates/<id> with     *)
(* {variantScopes} is validated by validate_variant_scopes; with {text} it *)
(* updates the text in templates.csv; a component update writes            *)
(* components.csv.                                                         *)
(***************************************************************************)
MaxScopeRules == 2    \* rules stored for the template in SpecScopes

\* AddRuleModal.getAllVariants: an id for every variant of every component
\* of the template.
getAllVariants(templateComponents, componentsMap) ==
    UNION {{VariantId(templateComponents[k], i - 1) :
               i \in 1..Len(componentsMap[templateComponents[k]].variants)} :
           k \in 1..Len(templateComponents)}

\* AddRuleModal.availableVariants2 over the variants of getAllVariants.
availableVariants(variants, variant1Id, existingRules) ==
    {v \in variants :
        /\ v[1] # variant1Id[1]
        /\ ~isDuplicate(existingRules, variant1Id, v)}

\* validate_variant_scopes: rules reference only components and variants
\* used in the template.
validate_variant_scopes(scopes, text, componentsMap) ==
    \A r \in Range(scopes) :
        {r.variant1, r.variant2}
            \subseteq getAllVariants(unique_component_names(text), componentsMap)

ScopesComponents ==
    [DefaultComponents EXCEPT !.a = Atomic(<<"x", "y", "z">>)]

ScopesInit ==
    /\ templateText = TemplateAB
    /\ components = ScopesComponents
    /\ variantScopes = <<>>
    /\ permFile = <<>>
    /\ prevFile = <<>>
    /\ genInputs = <<>>
    /\ genCount = 0
    /\ IdleIdx /\ IdleRes /\ IdleRules /\ IdlePages

\* AddRuleModal -> VariantScopeRulesList -> PermutationPicker ->
\* saveVariantScopes -> PUT {variantScopes}, stored when valid.
AddScopeRule(variant1, variant2) ==
    /\ Len(savedScopes) < MaxScopeRules
    /\ LET variants == getAllVariants(unique_component_names(templateText),
                                      components)
           rules == Append(savedScopes, Rule(variant1, variant2))
       IN /\ variant1 \in variants
          /\ variant2 \in availableVariants(variants, variant1, savedScopes)
          /\ validate_variant_scopes(rules, templateText, components)
          /\ savedScopes' = rules
    /\ UNCHANGED <<localRules, inflight, modal, lastAdd, isEditing>>
    /\ UNCHANGED <<genVars, idxVars, resVars, pageVars>>

\* useTemplate.saveTemplate: PUT {text}.
saveTemplate(text) ==
    /\ text # templateText
    /\ templateText' = text
    /\ UNCHANGED <<components, variantScopes, permFile, prevFile, genInputs,
                   genCount>>
    /\ UNCHANGED <<idxVars, resVars, ruleVars, pageVars>>

\* NonSplitVariableList.handleDelete -> onVariablesChange -> component update.
handleDelete(name, index) ==
    /\ ~components[name].isSplit
    /\ Len(components[name].variants) > 2
    /\ index \in 1..Len(components[name].variants)
    /\ components' = [components EXCEPT
                        ![name].variants = RemoveAt(@, index)]
    /\ UNCHANGED <<templateText, variantScopes, permFile, prevFile, genInputs,
                   genCount>>
    /\ UNCHANGED <<idxVars, resVars, ruleVars, pageVars>>

ScopeIds == {VariantId(n, i) : n \in CompNames, i \in 0..(MaxVariants - 1)}

ScopesNext ==
    \/ \E v1, v2 \in ScopeIds : AddScopeRule(v1, v2)
    \/ \E text \in Templates : saveTemplate(text)
    \/ \E n \in {"a", "b"}, i \in 1..MaxVariants : handleDelete(n, i)

SpecScopes == ScopesInit /\ [][ScopesNext]_vars

\* C12: every stored rule references components of the template's component
\* set and variant indices that exist in those components.
C12_RulesReferenceTheTemplate ==
    validate_variant_scopes(savedScopes, templateText, components)

(***************************************************************************)
(* SpecStored: stored results of a template whose variants are edited and  *)
(* whose permutations are generated again. An upload is validated against  *)
(* the permutation file of that moment; POST /api/templates/<id>/generate  *)
(* replaces the file.                                                      *)
(***************************************************************************)
StoredRows ==
    [permutation_item_id : {ResIndex[1].id, ResIndex[2].id, UnknownId},
     run_id : {1},
     test_array : {<<1, 0>>},
     forbidden_tool_calls : {0}]

StoredPayloads == SeqsUpTo(StoredRows, 1, 2)

StoredNext ==
    \/ \E rows \in StoredPayloads : Upload(rows)
    \/ \E v \in Content : EditVariant(v)
    \/ ApplyGenerate
    \/ \E i \in 1..MaxUploads : DeleteResult(i)

SpecStored == ResInit /\ [][StoredNext]_vars

\* C13: every run record of every stored result has a permutation id of the
\* template's current permutation file.
C13_RunRecordsInCurrentIndex ==
    \A i \in 1..Len(resultFiles) :
        \A row \in Range(resultFiles[i]) :
            permutation_id_exists(row.permutation_item_id, permFile)

(***************************************************************************)
(* SpecKpi: calculate_high_level_kpis of backend/results_utils.py applied  *)
(* to stored results. Quotients are kept exact as num/den; time_spent is   *)
(* counted in whole units.                                                 *)
(***************************************************************************)
MaxKpiRows == 2       \* run records of a result in SpecKpi
HistogramBins == 10

RECURSIVE Sum(_)
Sum(s) == IF s = <<>> THEN 0 ELSE Head(s) + Sum(Tail(s))

\* Python's n / d.
divide(n, d) == IF d = 0 THEN ZeroDivisionError ELSE Value(n, d)

Column(result_data, f) == [i \in 1..Len(result_data) |-> result_data[i][f]]

\* Run records that differ in outcomes and tool calls.
RateRows ==
    {[permutation_item_id |-> id, run_id |-> 1, test_array |-> t,
      tool_call_int |-> c[1], forbidden_tool_calls |-> c[2], time_spent |-> 1] :
        id \in {ResIndex[1].id, ResIndex[2].id},
        t \in {<<1, 1, 0>>, <<1, 1, 1>>, <<0>>, <<>>},
        c \in {<<0, 0>>, <<2, 0>>, <<2, 1>>, <<1, 3>>}}

\* Run records that differ in elapsed time.
TimeRows ==
    {[permutation_item_id |-> ResIndex[1].id, run_id |-> 1,
      test_array |-> <<1, 1, 1>>, tool_call_int |-> 2,
      forbidden_tool_calls |-> 0, time_spent |-> t] : t \in {0, 1, 4, 10, 11}}

KpiPayloads ==
    SeqsUpTo(RateRows, 1, MaxKpiRows) \cup SeqsUpTo(TimeRows, 1, MaxKpiRows)

\* Validation Rules of the result CSV, all columns.
accepted(rows, file) ==
    /\ validate_result_csv(rows, file) = <<>>
    /\ \A i \in 1..Len(rows) :
          rows[i].tool_call_int >= 0 /\ rows[i].time_spent >= 0

RECURSIVE Product(_)
Product(s) == IF s = <<>> THEN 1 ELSE Head(s) * Product(Tail(s))

\* A pass rate that is the mean of the pass rates of the runs.
pass_rate_per_run(result_data) ==
    LET arrays == Column(result_data, "test_array")
        lens == [i \in 1..Len(arrays) |-> Len(arrays[i])]
        P == Product(lens)
    IN IF P = 0 THEN ZeroDivisionError
       ELSE Value(Sum([i \in 1..Len(arrays) |->
                         Sum(arrays[i]) * (P \div lens[i])]),
                  Len(arrays) * P)

\* pass_rate = sum(all_test_items) / len(all_test_items)
pass_rate(result_data) ==
    LET all_test_items == Flatten(Column(result_data, "test_array"))
    IN divide(Sum(all_test_items), Len(all_test_items))

all_passing(result_data, id) ==
    \A i \in 1..Len(result_data) :
        result_data[i].permutation_item_id = id
            => \A k \in 1..Len(result_data[i].test_array) :
                  result_data[i].test_array[k] = 1

\* Zero-error runs over every permutation of the index, with or without runs.
zero_error_runs_of_index(result_data) ==
    divide(Cardinality({id \in Ids(ResIndex) :
                           all_passing(result_data, id)}),
           Cardinality(Ids(ResIndex)))

\* zero_error_runs = zero_error_count / total_permutations
zero_error_runs(result_data) ==
    LET ids == Range(Column(result_data, "permutation_item_id"))
        zero_error_count ==
            Cardinality({id \in ids : all_passing(result_data, id)})
    IN divide(zero_error_count, Cardinality(ids))

\* statistics.median
median(values) ==
    LET sorted == SortSeq(values, LAMBDA x, y : x < y)
        n == Len(sorted)
    IN IF n % 2 = 1 THEN Value(sorted[(n + 1) \div 2], 1)
       ELSE Value(sorted[n \div 2] + sorted[n \div 2 + 1], 2)

Max(values) == CHOOSE x \in Range(values) : \A y \in Range(values) : y <= x
Min(values) == CHOOSE x \in Range(values) : \A y \in Range(values) : x <= y

\* The bin index without the cap at the last bin.
bin_index_uncapped(value, lo, hi, below) ==
    IF hi - lo > 0
    THEN LET exact == (HistogramBins * (value - lo)) \div (hi - lo)
             whole == (HistogramBins * (value - lo)) % (hi - lo) = 0
         IN IF whole /\ exact > 0 THEN exact - below ELSE exact
    ELSE 0

\* bin_index = min(int((value - min) / bin_width), 9) if bin_width > 0 else 0
\* with bin_width = (max - min) / 10. A floating-point quotient whose exact
\* value is a whole number may come out just below it: below = 1.
bin_index(value, lo, hi, below) ==
    IF hi - lo > 0
    THEN LET exact == (HistogramBins * (value - lo)) \div (hi - lo)
             whole == (HistogramBins * (value - lo)) % (hi - lo) = 0
             int == IF whole /\ exact > 0 THEN exact - below ELSE exact
         IN IF int < HistogramBins - 1 THEN int ELSE HistogramBins - 1
    ELSE 0

\* The counts of the bins 0 .. 9, at positions 1 .. 10.
histogram(values, below) ==
    [b \in 1..HistogramBins |->
        Cardinality({i \in 1..Len(values) :
            bin_index(values[i], Min(values), Max(values), below) = b - 1})]

\* forbidden_tool_call_rate = forbidden_calls_sum / tool_calls_sum
forbidden_tool_call_rate(result_data) ==
    divide(Sum(Column(result_data, "forbidden_tool_calls")),
           Sum(Column(result_data, "tool_call_int")))

calculate_high_level_kpis(result_data, below) ==
    LET time_spent_values == Column(result_data, "time_spent")
    IN [pass_rate |-> pass_rate(result_data),
        zero_error_runs |-> zero_error_runs(result_data),
        median |-> median(time_spent_values),
        average |-> divide(Sum(time_spent_values), Len(time_spent_values)),
        max |-> Value(Max(time_spent_values), 1),
        min |-> Value(Min(time_spent_values), 1),
        histogram |-> histogram(time_spent_values, below),
        median_tool_calls |-> median(Column(result_data, "tool_call_int")),
        forbidden_tool_call_rate |-> forbidden_tool_call_rate(result_data)]

Metrics == {"pass_rate", "zero_error_runs", "median", "average", "max", "min",
            "median_tool_calls", "forbidden_tool_call_rate"}

\* calculate_all_kpis: the KPI object, and the status written to the
\* metadata: 'ready' on success, 'error' on failure.
calculate_kpi_object(result_data, below) ==
    LET high_level == calculate_high_level_kpis(result_data, below)
    IN IF \E m \in Metrics : high_level[m] = ZeroDivisionError
       THEN [status |-> "error", error_message |-> "division by zero",
             high_level |-> NoHighLevel]
       ELSE [status |-> "ready", error_message |-> "",
             high_level |-> high_level]

KpiInit ==
    /\ templateText = TemplateAB
    /\ components = DefaultComponents
    /\ variantScopes = <<>>
    /\ permFile = ResIndex
    /\ prevFile = <<>>
    /\ genInputs = <<Inputs>>
    /\ genCount = 1
    /\ templateState = "present"
    /\ \E rows \in KpiPayloads :
          /\ accepted(rows, permFile)
          /\ resultFiles = <<rows>>
    /\ resultsMeta = <<[status |-> "processing", error_message |-> ""]>>
    /\ upload = NoUpload
    /\ kpis = NoKpis
    /\ comparison = NoComparison
    /\ IdleIdx /\ IdleRules /\ IdlePages

\* GET /api/results/<result_id>: the KPIs are calculated on demand.
GetKpis(below) ==
    /\ resultsMeta[1].status \in {"processing", "ready"}
    /\ kpis' = calculate_kpi_object(resultFiles[1], below)
    /\ resultsMeta' = <<[status |-> kpis'.status,
                         error_message |-> kpis'.error_message]>>
    /\ UNCHANGED <<templateState, resultFiles, upload, comparison>>
    /\ UNCHANGED <<genVars, idxVars, ruleVars, pageVars>>

KpiNext ==
    \/ \E below \in {0, 1} : GetKpis(below)

SpecKpi == KpiInit /\ [][KpiNext]_vars

tool_calls_sum == Sum(Column(resultFiles[1], "tool_call_int"))

\* C14: for an accepted result whose tool calls sum to a positive number,
\* the forbidden_tool_call_rate computed lies in [0, 1].
C14_ForbiddenRateInUnitInterval ==
    (kpis.status = "ready" /\ tool_calls_sum > 0)
        => LET rate == kpis.high_level.forbidden_tool_call_rate
           IN rate.kind = "value" /\ 0 <= rate.num /\ rate.num <= rate.den

time_spent_values == Column(resultFiles[1], "time_spent")

\* C15: the histogram has 10 bins whose counts sum to the number of rows
\* (every elapsed time is counted in exactly one bin 0 .. 9), the maximum is
\* counted in the last bin, and when min = max one bin holds every value.
C15_HistogramCountsEveryValueOnce ==
    kpis.status = "ready" =>
        LET h == kpis.high_level.histogram
            hi == Max(time_spent_values)
            lo == Min(time_spent_values)
        IN /\ Len(h) = HistogramBins
           /\ Sum(h) = Len(time_spent_values)
           /\ hi > lo => h[HistogramBins] >=
                 Cardinality({i \in 1..Len(time_spent_values) :
                                 time_spent_values[i] = hi})
           /\ hi = lo => \E b \in 1..HistogramBins :
                            h[b] = Len(time_spent_values)

\* C15 reached: the times 0 and 10 are counted in the first and the last bin.
C15_MinAndMaxInOuterBins ==
    /\ kpis.status = "ready"
    /\ Range(time_spent_values) = {0, 10}
    /\ kpis.high_level.histogram[1] >= 1
    /\ kpis.high_level.histogram[HistogramBins] >= 1

total_test_items == Len(Flatten(Column(resultFiles[1], "test_array")))

\* C16: once the KPIs of a result were computed, a KPI object is returned in
\* which pass_rate is "not available" when the result has no test element
\* and a value otherwise, and forbidden_tool_call_rate is "not available"
\* when the tool calls sum to 0 and a value otherwise.
C16_EmptyDenominatorNotAvailable ==
    kpis.status # "none" =>
        /\ kpis.status = "ready"
        /\ kpis.high_level.pass_rate.kind =
              IF total_test_items = 0 THEN "none" ELSE "value"
        /\ kpis.high_level.forbidden_tool_call_rate.kind =
              IF tool_calls_sum = 0 THEN "none" ELSE "value"
        /\ kpis.high_level.zero_error_runs.kind = "value"
        /\ kpis.high_level.median.kind = "value"

(***************************************************************************)
(* SpecCompare: GET /api/results/<id>/compare/<id2> on two stored results, *)
(* and the comparison indicator KPICard shows for a difference.            *)
(***************************************************************************)
MaxCompareRows == 2   \* run records of each compared result

CompareRows ==
    {[permutation_item_id |-> ResIndex[1].id, run_id |-> 1, test_array |-> t,
      tool_call_int |-> 2, forbidden_tool_calls |-> f, time_spent |-> 1] :
        t \in {<<1, 1, 1, 1, 0>>, <<1, 1, 1, 0, 0>>, <<1, 1, 1>>},
        f \in {0, 1}}

ComparePayloads == SeqsUpTo(CompareRows, 1, MaxCompareRows)

DiffMetrics == {"pass_rate", "zero_error_runs", "forbidden_tool_call_rate"}

\* A percentage that is null when the second value is 0.
percentage_or_null(a, b) ==
    IF b.num = 0 THEN NoMetric
    ELSE Value(100 * (a.num * b.den - b.num * a.den), a.den * b.num)

\* ((result1_value - result2_value) / result2_value) * 100
percentage(a, b) ==
    divide(100 * (a.num * b.den - b.num * a.den), a.den * b.num)

\* result1_value - result2_value
absolute(a, b) == Value(a.num * b.den - b.num * a.den, a.den * b.den)

compute_differences(high_level1, high_level2) ==
    [m \in DiffMetrics |->
        [absolute |-> absolute(high_level1[m], high_level2[m]),
         percentage |-> percentage(high_level1[m], high_level2[m])]]

\* KPICard.getComparisonIndicator: percentage.toFixed(1) of the difference.
getComparisonIndicator(difference) ==
    IF difference.percentage.kind = "value" THEN "shown" ELSE "TypeError"

CompareInit ==
    /\ templateText = TemplateAB
    /\ components = DefaultComponents
    /\ variantScopes = <<>>
    /\ permFile = ResIndex
    /\ prevFile = <<>>
    /\ genInputs = <<Inputs>>
    /\ genCount = 1
    /\ templateState = "present"
    /\ \E rows1, rows2 \in ComparePayloads :
          /\ accepted(rows1, permFile) /\ accepted(rows2, permFile)
          /\ resultFiles = <<rows1, rows2>>
    /\ resultsMeta = <<[status |-> "ready", error_message |-> ""],
                       [status |-> "ready", error_message |-> ""]>>
    /\ upload = NoUpload
    /\ kpis = NoKpis
    /\ comparison = NoComparison
    /\ IdleIdx /\ IdleRules /\ IdlePages

\* The compare endpoint answers and the page shows the indicator of the
\* forbidden-tool-call-rate card.
GetComparison(i, j) ==
    /\ comparison.status = "none"
    /\ LET high_level1 == calculate_high_level_kpis(resultFiles[i], 0)
           high_level2 == calculate_high_level_kpis(resultFiles[j], 0)
           differences == compute_differences(high_level1, high_level2)
       IN IF \E m \in DiffMetrics :
                differences[m].percentage = ZeroDivisionError
          THEN comparison' = [NoComparison EXCEPT !.status = "error"]
          ELSE comparison' =
                  [status |-> "ready",
                   indicator |-> getComparisonIndicator(
                                    differences.forbidden_tool_call_rate),
                   differences |-> differences]
    /\ UNCHANGED <<templateState, resultsMeta, resultFiles, upload, kpis>>
    /\ UNCHANGED <<genVars, idxVars, ruleVars, pageVars>>

\* The page is left; the next comparison starts afresh.
CloseComparison ==
    /\ comparison.status # "none"
    /\ comparison' = NoComparison
    /\ UNCHANGED <<templateState, resultsMeta, resultFiles, upload, kpis>>
    /\ UNCHANGED <<genVars, idxVars, ruleVars, pageVars>>

CompareNext ==
    \/ GetComparison(1, 2)
    \/ GetComparison(2, 1)
    \/ CloseComparison

SpecCompare == CompareInit /\ [][CompareNext]_vars

\* The value of metric m of the stored result i.
MetricOf(i, m) == calculate_high_level_kpis(resultFiles[i], 0)[m]

\* C17: a comparison asked for is answered, and for every metric the
\* percentage is "not available" when the second value is 0 and
\* (A - B) / B * 100 otherwise, the absolute difference is A - B, and the
\* indicator is shown without an exception.
C17_PercentageNotAvailableOnZero ==
    comparison.status # "none" =>
        /\ comparison.status = "ready"
        /\ comparison.indicator # "TypeError"
        /\ \E i, j \in 1..2 : i # j /\ \A m \in DiffMetrics :
              /\ comparison.differences[m].absolute
                    = absolute(MetricOf(i, m), MetricOf(j, m))
              /\ comparison.differences[m].percentage
                    = percentage_or_null(MetricOf(i, m), MetricOf(j, m))

\* The positions <<run, element>> of the test arrays of the stored result.
TestElements ==
    {<<i, k>> \in (1..Len(resultFiles[1])) \X (1..5) :
        k <= Len(resultFiles[1][i].test_array)}

\* C18: the pass_rate computed equals (number of elements 1 over all test
\* arrays) / (number of elements over all test arrays).
C18_PassRateOverElements ==
    kpis.status = "ready" =>
        LET rate == kpis.high_level.pass_rate
            ones == Cardinality({e \in TestElements :
                        resultFiles[1][e[1]].test_array[e[2]] = 1})
        IN /\ rate.kind = "value"
           /\ rate.num * Cardinality(TestElements) = ones * rate.den

\* C18 reached: the runs [1,1,0] and [1,1,1] give 5/6.
C18_FiveSixths ==
    /\ kpis.status = "ready"
    /\ Column(resultFiles[1], "test_array") = << <<1, 1, 0>>, <<1, 1, 1>> >>
    /\ kpis.high_level.pass_rate.num * 6 = 5 * kpis.high_level.pass_rate.den

\* The runs of the stored result for a permutation id.
RunsOf(id) ==
    {i \in 1..Len(resultFiles[1]) : resultFiles[1][i].permutation_item_id = id}

\* C19: the zero_error_runs computed equals (number of permutation ids with
\* a run whose runs all have all-ones arrays) / (number of permutation ids
\* with a run); ids of the index without a run count on neither side.
C19_ZeroErrorRunsOverIdsWithRuns ==
    kpis.status = "ready" =>
        LET rate == kpis.high_level.zero_error_runs
            with_runs == {id \in Ids(permFile) : RunsOf(id) # {}}
            zero_error == {id \in with_runs : \A i \in RunsOf(id) :
                             0 \notin Range(resultFiles[1][i].test_array)}
        IN /\ rate.kind = "value"
           /\ rate.num * Cardinality(with_runs)
                 = Cardinality(zero_error) * rate.den

\* C19 reached: one permutation with the runs [1,1,0] and [1,1,1], in an
\* index of several permutations, gives 0.
C19_OneFailingRunGivesZero ==
    /\ kpis.status = "ready"
    /\ Column(resultFiles[1], "test_array") = << <<1, 1, 0>>, <<1, 1, 1>> >>
    /\ Cardinality(Range(Column(resultFiles[1], "permutation_item_id"))) = 1
    /\ Cardinality(Ids(permFile)) > 1
    /\ kpis.high_level.zero_error_runs = Value(0, 1)

\* C20: a step that computes the KPIs of a result leaves the run records,
\* the permutation file and the metadata of the result as they were.
C20_KpiComputationReadOnly ==
    [][kpis' # kpis => UNCHANGED <<resultFiles, permFile, resultsMeta>>]_vars

(***************************************************************************)
(* SpecPreview: the random preview of a template (TemplatePreview and      *)
(* generateRandomPreview of utils/templateUtils).  A text is a sequence of *)
(* tokens; a placeholder token carries its name and part as written        *)
(* between the braces, white space included.                               *)
(***************************************************************************)
\* {{ a }}-{{b}}: the first placeholder written with white space
TemplateSpacedAB == <<Ph(" a ", ""), Txt("-"), Ph("b", "")>>
\* {{c/r}}-{{b}}: r is not a part of c
TemplateCrB == <<Ph("c", "r"), Txt("-"), Ph("b", "")>>
PreviewTemplates ==
    {TemplateAB, TemplateBAB, TemplateCpB, TemplateCpqB, TemplateSpacedAB,
     TemplateCrB, TemplateStatic}

\* Components of the previewed template; "$$" is a variant as a user types
\* it, for instance in a price.
PreviewComponents ==
    {DefaultComponents,
     [DefaultComponents EXCEPT !.a = Atomic(<<"x", "$$">>)]}

\* String.prototype.trim on the names of the model.
Trim(s) == IF s = " a " THEN "a" ELSE s

\* The usages {name, part} of the placeholders, in the order of the text;
\* a usage without part has part "" (null in the code).
extractComponentsFromTemplate(text) ==
    LET phs == SelectSeq(text, LAMBDA t : t.kind = "ph")
    IN [k \in 1..Len(phs) |->
           [name |-> Trim(phs[k].name), part |-> Trim(phs[k].part)]]

\* The keys of componentGroups in insertion order: the names of the usages
\* found in componentsMap, each once.
RECURSIVE GroupNames(_, _, _)
GroupNames(usages, componentsMap, seen) ==
    IF usages = <<>> THEN <<>>
    ELSE LET name == Head(usages).name
         IN IF name \in DOMAIN componentsMap /\ name \notin seen
            THEN <<name>> \o GroupNames(Tail(usages), componentsMap,
                                        seen \cup {name})
            ELSE GroupNames(Tail(usages), componentsMap, seen)

\* componentGroups[name].parts
GroupParts(usages, name) ==
    LET used == SelectSeq(usages, LAMBDA u : u.name = name /\ u.part # "")
    IN [k \in 1..Len(used) |-> used[k].part]

\* What String.prototype.replace puts in place of a match when the
\* replacement is a string: "$$" stands for "$" and "$&" for the match.
GetSubstitution(matched, replacement) ==
    IF replacement = "$$" THEN Txt("$")
    ELSE IF replacement = "$&" THEN matched
    ELSE Txt(replacement)

\* result.replace(new RegExp(escapedPlaceholder, 'g'), value): the pattern
\* is the placeholder written without white space.
replace(result, placeholder, value) ==
    [k \in 1..Len(result) |->
        IF result[k] = placeholder
        THEN GetSubstitution(result[k], value)
        ELSE result[k]]

\* for (const part of group.parts) ...
RECURSIVE replaceParts(_, _, _, _)
replaceParts(result, name, variant, parts) ==
    IF parts = <<>> THEN result
    ELSE LET part == Head(parts)
             next == IF part \in DOMAIN variant
                     THEN replace(result, Ph(name, part), variant[part])
                     ELSE result
         IN replaceParts(next, name, variant, Tail(parts))

\* for (const [name, variant] of Object.entries(selectedVariants)) ...
\* A variant of a split component is an object, any other a string.
RECURSIVE replaceVariants(_, _, _, _, _)
replaceVariants(result, names, usages, componentsMap, randomIndex) ==
    IF names = <<>> THEN result
    ELSE LET name == Head(names)
             component == componentsMap[name]
             parts == GroupParts(usages, name)
             next ==
                 IF component.variants = <<>> THEN result
                 ELSE LET variant == component.variants[randomIndex[name] + 1]
                      IN IF component.isSplit /\ parts # <<>>
                         THEN replaceParts(result, name, variant, parts)
                         ELSE replace(result, Ph(name, ""),
                                      IF component.isSplit
                                      THEN "[object Object]"
                                      ELSE variant)
         IN replaceVariants(next, Tail(names), usages, componentsMap,
                            randomIndex)

\* generateRandomPreview(templateText, componentsMap); randomIndex[name] is
\* the value of Math.floor(Math.random() * variants.length) for the name.
generateRandomPreview(text, componentsMap, randomIndex) ==
    LET componentUsages == extractComponentsFromTemplate(text)
    IN IF componentUsages = <<>> THEN text
       ELSE replaceVariants(text,
                            GroupNames(componentUsages, componentsMap, {}),
                            componentUsages, componentsMap, randomIndex)

PreviewNames(text) ==
    {u.name : u \in Range(extractComponentsFromTemplate(text))}

PreviewInit ==
    /\ templateText \in PreviewTemplates
    /\ components \in PreviewComponents
    /\ variantScopes \in
          RuleLists(CrossRules(PreviewNames(templateText), components),
                    MaxRules)
    /\ permFile = <<>>
    /\ prevFile = <<>>
    /\ genInputs = <<>>
    /\ genCount = 0
    /\ IdleIdx /\ IdleRes /\ IdleRules /\ IdlePages

\* TemplatePreview: the effect on text, componentsMap and variantScopes and
\* the reload button both set previewText to a new random preview.
handleReload(randomIndex) ==
    /\ templateText # <<>>
    /\ \A n \in DOMAIN randomIndex :
          randomIndex[n] < Len(components[n].variants)
    /\ preview' =
          [status |-> "shown",
           selected |-> randomIndex,
           previewText |-> generateRandomPreview(templateText, components,
                                                 randomIndex)]
    /\ UNCHANGED <<editor, page>>
    /\ UNCHANGED <<genVars, idxVars, resVars, ruleVars>>

PreviewNext ==
    \E randomIndex \in [PreviewNames(templateText) \cap DOMAIN components
                             -> 0..(MaxVariants - 1)] :
        handleReload(randomIndex)

SpecPreview == PreviewInit /\ [][PreviewNext]_vars

SelectedVariant(n) == components[n].variants[preview.selected[n] + 1]

\* A usage names a part the selected variant of its component has not.
MissingPart(u) ==
    /\ u.part # ""
    /\ u.name \in DOMAIN preview.selected
    /\ u.part \notin DOMAIN SelectedVariant(u.name)

\* The text with every placeholder replaced by the value of the selected
\* variant, as written in the component.
ValueText(text) ==
    [k \in 1..Len(text) |->
        IF text[k].kind = "text" THEN text[k]
        ELSE LET v == SelectedVariant(Trim(text[k].name))
             IN Txt(IF text[k].part = "" THEN v ELSE v[Trim(text[k].part)])]

\* C21: rendering a template with a variant selection replaces every
\* occurrence of every referenced placeholder by the value of the selected
\* variant (atomic: the variant, split: its value at the named part): no
\* placeholder of a referenced component is left in the rendered text, and
\* the text outside the placeholders is unchanged.
C21_EveryPlaceholderReplaced ==
    (/\ preview.status = "shown"
     /\ \A u \in Range(extractComponentsFromTemplate(templateText)) :
           ~MissingPart(u))
    => /\ \A t \in Range(preview.previewText) : t.kind # "ph"
       /\ preview.previewText = ValueText(templateText)

\* C22: rendering fails with a parse error, and produces no text, whenever
\* the template references a part key that the selected split variant does
\* not define.
C22_MissingPartKeyFails ==
    (/\ preview.status # "none"
     /\ \E u \in Range(extractComponentsFromTemplate(templateText)) :
           MissingPart(u))
    => /\ preview.status = "parse error"
       /\ preview.previewText = <<>>

\* C28: the random preview is one row of the permutations of the template:
\* the variants it renders are never a pair the current deny rules of the
\* template forbid.
C28_PreviewIsAllowedCombination ==
    preview.status = "shown"
    => \A r \in Range(variantScopes) :
          ~(/\ preview.selected[r.variant1[1]] = r.variant1[2]
            /\ preview.selected[r.variant2[1]] = r.variant2[2])

(***************************************************************************)
(* SpecEditor: the component page (ComponentItem with NonSplitVariableList *)
(* and SplitVariableList).  The page holds the component as loaded, every  *)
(* change is sent whole with PUT /api/components/<id>, and the page loads  *)
(* the component again when the request is answered.  A split variant is a *)
(* function from part names to values; the order of its keys is not        *)
(* modelled.                                                               *)
(***************************************************************************)
MaxEditorVariants == 3   \* variants of the edited component
MaxPuts == 1             \* PUT /api/components/<id> on their way

PartLists == {<<"p", "q">>, <<"p", "r">>, <<"p", "q", "r">>}
\* what SplitNumberSystem may hand over: too few parts, an empty name, a
\* name twice
BadPartLists == {<<"p">>, <<"p", "">>, <<"p", "p">>}

\* editValues of SplitVariable: a value for every part, or the first part
\* left empty
EditValues(parts) ==
    {[part \in Range(parts) |-> "x"],
     [part \in Range(parts) |-> IF part = parts[1] THEN "" ELSE "x"]}

PutBody(vs, split, parts) ==
    [isSplit |-> split, splitParts |-> parts, variants |-> vs]

\* loadComponent: the page takes the component the server returns.  The
\* variants of a split component are brought to the keys of splitParts.
loadComponent(data) ==
    [name |-> editor.name,
     isSplit |-> data.isSplit,
     splitParts |-> data.splitParts,
     variants |->
        IF data.isSplit
        THEN [i \in 1..Len(data.variants) |->
                 LET variant == data.variants[i]
                 IN IF DOMAIN variant = Range(data.splitParts) THEN variant
                    ELSE [part \in Range(data.splitParts) |->
                             IF part \in DOMAIN variant THEN variant[part]
                             ELSE ""]]
        ELSE data.variants]

\* The split component as ComponentsList.handleCreateSplitComponent creates
\* it: two parts, two variants with the same label in every part.
NewSplit == Split(<<[p |-> "x", q |-> "x"], [p |-> "x", q |-> "x"]>>)

EditorInit ==
    /\ templateText = TemplateStatic
    /\ components \in
          {[DefaultComponents EXCEPT !.a = Atomic(va), !.c = NewSplit] :
              va \in {<<"x", "x">>, <<"x", "y", "x">>}}
    /\ variantScopes = <<>>
    /\ permFile = <<>>
    /\ prevFile = <<>>
    /\ genInputs = <<>>
    /\ genCount = 0
    /\ IdleIdx /\ IdleRes /\ IdleRules
    /\ preview = NoPreview
    /\ page = NoPage
    /\ \E n \in {"a", "c"} :
          editor = [name |-> n,
                    isSplit |-> components[n].isSplit,
                    splitParts |-> components[n].splitParts,
                    variants |-> components[n].variants,
                    error |-> "", puts |-> <<>>, last |-> NoCall]

Call(op, size, before, sent, unchanged) ==
    [op |-> op, size |-> size, before |-> before, sent |-> sent,
     unchanged |-> unchanged]

\* The handler returns with setError(message) or onError(message) and sends
\* nothing.
Refused(op, size, message) ==
    /\ editor' = [editor EXCEPT !.error = message,
                     !.last = Call(op, size, Len(editor.variants), FALSE,
                                   TRUE)]
    /\ UNCHANGED <<genVars, idxVars, resVars, ruleVars, preview, page>>

\* setVariants, setSplitParts and componentAPI.update(id, data); the list
\* that called ends with onError(null).
Sent(op, vs, parts) ==
    /\ Len(editor.puts) < MaxPuts
    /\ editor' = [editor EXCEPT !.variants = vs, !.splitParts = parts,
                     !.error = "",
                     !.puts = Append(@, PutBody(vs, editor.isSplit, parts)),
                     !.last = Call(op, Len(vs), Len(editor.variants), TRUE,
                                   vs = editor.variants)]
    /\ UNCHANGED <<genVars, idxVars, resVars, ruleVars, preview, page>>

\* handleVariablesChange without its first check.
handleVariablesChange_unchecked(op, newVariants) ==
    IF \E i \in 1..Len(newVariants) : newVariants[i] = ""
    THEN Refused(op, Len(newVariants), "must be a non-empty string")
    ELSE Sent(op, newVariants, <<>>)

\* ComponentItem.handleVariablesChange(newVariants), called by op.
handleVariablesChange(op, newVariants) ==
    IF Len(newVariants) < 2
    THEN Refused(op, Len(newVariants), "At least 2 variables are required")
    ELSE IF \E i \in 1..Len(newVariants) : newVariants[i] = ""
    THEN Refused(op, Len(newVariants), "must be a non-empty string")
    ELSE Sent(op, newVariants, <<>>)

\* ComponentItem.handleSplitVariablesChange(newVariants), called by op: the
\* variants are sent with exactly the keys of splitParts.
handleSplitVariablesChange(op, newVariants) ==
    LET splitParts == editor.splitParts
        changed(i) == i > Len(editor.variants)
                      \/ editor.variants[i] # newVariants[i]
    IN IF Len(newVariants) < 2
       THEN Refused(op, Len(newVariants), "At least 2 variables are required")
       ELSE IF \E i \in 1..Len(newVariants) :
                  \E part \in Range(splitParts) :
                      part \notin DOMAIN newVariants[i]
       THEN Refused(op, Len(newVariants), "missing part")
       ELSE IF \E i \in 1..Len(newVariants) :
                  /\ changed(i)
                  /\ \E part \in Range(splitParts) : newVariants[i][part] = ""
       THEN Refused(op, Len(newVariants), "missing or empty value for part")
       ELSE Sent(op,
                 [i \in 1..Len(newVariants) |->
                     [part \in Range(splitParts) |-> newVariants[i][part]]],
                 splitParts)

\* The variant as it is, whatever the new parts.
remapped_not(variant, oldParts, trimmedParts) == variant

\* The variant under the new parts: the value of the old part at the same
\* position, '' for a part beyond the old ones.
remapped(variant, oldParts, trimmedParts) ==
    [part \in Range(trimmedParts) |->
        LET i == CHOOSE j \in 1..Len(trimmedParts) : trimmedParts[j] = part
        IN IF i <= Len(oldParts) /\ oldParts[i] \in DOMAIN variant
           THEN variant[oldParts[i]]
           ELSE ""]

\* ComponentItem.handleSplitPartsChange(newSplitParts)
handleSplitPartsChange(newSplitParts) ==
    /\ editor.isSplit
    /\ IF Len(newSplitParts) < 2
       THEN Refused("handleSplitPartsChange", Len(editor.variants),
                    "Split component must have at least 2 parts")
       ELSE IF "" \in Range(newSplitParts)
       THEN Refused("handleSplitPartsChange", Len(editor.variants),
                    "All split part names must be non-empty")
       ELSE IF Len(newSplitParts) # Cardinality(Range(newSplitParts))
       THEN Refused("handleSplitPartsChange", Len(editor.variants),
                    "Split part names must be unique")
       ELSE Sent("handleSplitPartsChange",
                 [i \in 1..Len(editor.variants) |->
                     remapped(editor.variants[i], editor.splitParts,
                              newSplitParts)],
                 newSplitParts)

\* onVariablesChange of the page, called with a list.
onVariablesChange(op, newVariants) ==
    IF editor.isSplit THEN handleSplitVariablesChange(op, newVariants)
    ELSE handleVariablesChange(op, newVariants)

\* NonSplitVariableList.handleSaveNew(value) and
\* SplitVariableList.handleSaveNew(value)
handleSaveNew(value) ==
    /\ Len(editor.variants) < MaxEditorVariants
    /\ IF editor.isSplit
       THEN IF \E part \in Range(editor.splitParts) : value[part] = ""
            THEN Refused("handleSaveNew", Len(editor.variants) + 1,
                         "All parts must be filled")
            ELSE onVariablesChange("handleSaveNew",
                                   Append(editor.variants, value))
       ELSE IF value = ""
            THEN Refused("handleSaveNew", Len(editor.variants) + 1,
                         "Variable cannot be empty")
            ELSE onVariablesChange("handleSaveNew",
                                   Append(editor.variants, value))

\* NonSplitVariableList.handleSave(index, value) and
\* SplitVariableList.handleSave(index, value); index counted from 1
handleSaveVariable(index, value) ==
    /\ index \in 1..Len(editor.variants)
    /\ IF editor.isSplit
       THEN IF \E part \in Range(editor.splitParts) : value[part] = ""
            THEN Refused("handleSave", Len(editor.variants),
                         "All parts must be filled")
            ELSE onVariablesChange("handleSave",
                                   [editor.variants EXCEPT ![index] = value])
       ELSE IF value = ""
            THEN Refused("handleSave", Len(editor.variants),
                         "Variable cannot be empty")
            ELSE onVariablesChange("handleSave",
                                   [editor.variants EXCEPT ![index] = value])

\* NonSplitVariableList.handleDelete(index) and
\* SplitVariableList.handleDelete(index); index counted from 1
handleDeleteVariable(index) ==
    /\ index \in 1..Len(editor.variants)
    /\ IF Len(editor.variants) <= 2
       THEN Refused("handleDelete", Len(editor.variants) - 1,
                    "At least 2 variables are required")
       ELSE onVariablesChange("handleDelete",
                              RemoveAt(editor.variants, index))

\* A list component hands a list of variants to the page.
VariablesChanged(newVariants) ==
    /\ ~editor.isSplit
    /\ handleVariablesChange("onVariablesChange", newVariants)

\* PUT /api/components/<id> is handled and answered: components.csv takes
\* the component sent, and the page loads it again.  The call the page
\* remembers is the last one of a handler of the user.
UpdateAnswered(k) ==
    /\ k \in 1..Len(editor.puts)
    /\ components' = [components EXCEPT ![editor.name] = editor.puts[k]]
    /\ editor' = loadComponent(editor.puts[k]) @@
                 [error |-> "", puts |-> RemoveAt(editor.puts, k),
                  last |-> NoCall]
    /\ UNCHANGED <<templateText, variantScopes, permFile, prevFile, genInputs,
                   genCount>>
    /\ UNCHANGED <<idxVars, resVars, ruleVars, preview, page>>

\* The request fails: the page shows the error and loads the component
\* the server has.
UpdateFailed(k) ==
    /\ k \in 1..Len(editor.puts)
    /\ editor' = loadComponent(components[editor.name]) @@
                 [error |-> "Failed to save variables",
                  puts |-> RemoveAt(editor.puts, k),
                  last |-> NoCall]
    /\ UNCHANGED <<genVars, idxVars, resVars, ruleVars, preview, page>>

\* The values a variable row hands over when its save button is pressed.
VariableValues ==
    IF editor.isSplit THEN EditValues(editor.splitParts)
    ELSE {"x", ""}

EditorNext ==
    \/ \E value \in VariableValues : handleSaveNew(value)
    \/ \E value \in VariableValues, index \in 1..MaxEditorVariants :
          handleSaveVariable(index, value)
    \/ \E index \in 1..MaxEditorVariants : handleDeleteVariable(index)
    \/ \E newSplitParts \in PartLists \cup BadPartLists :
          handleSplitPartsChange(newSplitParts)
    \/ \E newVariants \in SeqsUpTo({"x", ""}, 0, 2) :
          VariablesChanged(newVariants)
    \/ \E k \in 1..MaxPuts : UpdateAnswered(k)
    \/ \E k \in 1..MaxPuts : UpdateFailed(k)

SpecEditor == EditorInit /\ [][EditorNext]_vars

C24_VariantsHaveTheSplitParts ==
    /\ \A n \in CompNames :
          components[n].isSplit
          => \A i \in 1..Len(components[n].variants) :
                DOMAIN components[n].variants[i]
                    = Range(components[n].splitParts)
    /\ \A k \in 1..Len(editor.puts) :
          editor.puts[k].isSplit
          => \A i \in 1..Len(editor.puts[k].variants) :
                DOMAIN editor.puts[k].variants[i]
                    = Range(editor.puts[k].splitParts)

\* A part was added, and a variant filled in for the three parts was added:
\* the older variants have the new part empty.
C24_PartAddedThenVariantAdded ==
    /\ components.c.splitParts = <<"p", "q", "r">>
    /\ Len(components.c.variants) = 3
    /\ components.c.variants[1] = [p |-> "x", q |-> "x", r |-> ""]
    /\ components.c.variants[3] = [p |-> "x", q |-> "x", r |-> "x"]

(***************************************************************************)
(* SpecBatch: several deny rules added in one submission of AddRuleModal,  *)
(* with scope/PermutationPicker, which hands no onAddRulesBatch to the     *)
(* rules list: the rules are added one by one, each with its own           *)
(* PUT /api/templates/<id>.  Every request succeeds.                       *)
(***************************************************************************)
BatchIds == {VariantId("a", 0), VariantId("a", 1),
             VariantId("b", 0), VariantId("b", 1)}

\* AddRuleModal.availableVariants2 over the variants of the template.
availableToDeny(variant1Id, existingRules) ==
    {v \in BatchIds :
        /\ v[1] # variant1Id[1]
        /\ ~isDuplicate(existingRules, variant1Id, v)}

\* variant2.forEach(v2Id => onAdd(variant1, v2Id)): every call goes through
\* VariantScopeRulesList.handleAddRule, which looks for the pair in the
\* rules it was rendered with, and PermutationPicker.handleAddRule, which
\* looks for it in the rules so far, appends the rule and calls onSave with
\* the rules so far.  The result is the rules and the requests sent.
RECURSIVE addEach(_, _, _, _)
addEach(prev, rendered, variant1, variant2) ==
    IF variant2 = <<>> THEN [rules |-> prev, sent |-> <<>>]
    ELSE LET v2Id == Head(variant2)
             skipped == \/ isDuplicate(rendered, variant1, v2Id)
                        \/ isDuplicate(prev, variant1, v2Id)
             newRules == IF skipped THEN prev
                         ELSE Append(prev, Rule(variant1, v2Id))
             rest == addEach(newRules, rendered, variant1, Tail(variant2))
         IN [rules |-> rest.rules,
             sent |-> IF skipped THEN rest.sent
                      ELSE <<newRules>> \o rest.sent]

\* AddRuleModal.handleAdd with the variants selected to deny; the modal
\* closes and keeps its selection.
handleAddSeveral(variant1, variant2) ==
    /\ modal.open
    /\ variant2 # <<>>
    /\ Len(inflight) + Len(variant2) <= MaxInflight
    /\ \A i, j \in 1..Len(variant2) : variant2[i] = variant2[j] => i = j
    /\ Range(variant2) \subseteq availableToDeny(variant1, localRules)
    /\ LET added == addEach(localRules, localRules, variant1, variant2)
       IN /\ localRules' = added.rules
          /\ inflight' = inflight \o added.sent
    /\ modal' = [open |-> FALSE, variant1 |-> variant1,
                 variant2 |-> variant2]
    /\ UNCHANGED <<savedScopes, lastAdd, isEditing>>
    /\ UNCHANGED <<genVars, idxVars, resVars, pageVars>>

BatchNext ==
    \/ OpenModal
    \/ \E variant1 \in BatchIds, variant2 \in SeqsUpTo(BatchIds, 1, 2) :
          handleAddSeveral(variant1, variant2)
    \/ \E k \in 1..MaxInflight : SaveAnswered(k)

SpecBatch == RulesInit /\ [][BatchNext]_vars

\* C25: when several deny rules are added in one submission of the modal
\* and every save request succeeds, then after all requests have
\* completed, in whatever order the server handles and answers them, the
\* persisted variantScopes of the template and the rules the picker shows
\* both contain every added rule.
C25_EveryAddedRuleSavedAndShown ==
    (/\ ~modal.open
     /\ modal.variant1 # <<>>
     /\ Len(modal.variant2) >= 2
     /\ inflight = <<>>)
    => \A v2Id \in Range(modal.variant2) :
          /\ isDuplicate(savedScopes, modal.variant1, v2Id)
          /\ isDuplicate(localRules, modal.variant1, v2Id)

\* C26: if saving the rules fails, then once no save is on its way the
\* rules the picker shows are the last persisted variantScopes of the
\* template: an addition or a deletion that was not saved is not left
\* displayed.  (In SpecRules the rules shown and the rules persisted can
\* only differ, with no save on its way, after a save that failed.)
C26_UnsavedChangeNotDisplayed ==
    inflight = <<>> => localRules = savedScopes

(***************************************************************************)
(* SpecPoll: the result page (ResultItem with useResult) of one uploaded   *)
(* result.  page.status is result?.status ("none" while result is null),   *)
(* page.timer tells whether the interval of the polling effect is set,     *)
(* page.fetches are the GET requests on their way, each "pending" until    *)
(* the server has handled it and then the status it carries back, and      *)
(* page.issued is what issued the last request.  page.settled records that *)
(* the page has once held a result with status ready or error.             *)
(***************************************************************************)
MaxFetches == 2

FinalStatuses == {"ready", "error"}

PollInit ==
    /\ templateText = TemplateAB
    /\ components = DefaultComponents
    /\ variantScopes = <<>>
    /\ permFile = ResIndex
    /\ prevFile = <<>>
    /\ genInputs = <<Inputs>>
    /\ genCount = 1
    /\ templateState \in {"present", "gone"}
    /\ resultsMeta = <<[status |-> "processing", error_message |-> ""]>>
    /\ resultFiles = <<<<>>>>
    /\ upload = NoUpload
    /\ kpis = NoKpis
    /\ comparison = NoComparison
    /\ IdleIdx /\ IdleRules
    /\ preview = NoPreview
    /\ editor = NoEditor
    /\ page = [NoPage EXCEPT !.loading = TRUE, !.fetches = <<"pending">>,
                             !.issued = "mount"]

\* The polling effect of ResultItem, run after a render: its dependency
\* refresh is a new function at every render, so the interval of the last
\* render is cleared and a new one is set exactly when the status is
\* processing.
pollingEffect(status) == status = "processing"

\* fetchResult up to its await: setLoading(true), setError(null) and the
\* GET request; the render that follows runs the polling effect again.
fetchResult(by) ==
    /\ Len(page.fetches) < MaxFetches
    /\ page' = [page EXCEPT !.loading = TRUE, !.error = FALSE,
                            !.fetches = Append(@, "pending"),
                            !.issued = by,
                            !.timer = pollingEffect(page.status)]
    /\ UNCHANGED <<genVars, idxVars, resVars, ruleVars, preview, editor>>

\* The interval of the polling effect elapses: refresh().
IntervalElapsed ==
    /\ page.timer
    /\ fetchResult("interval")

\* The Refresh button of the processing view.
RefreshClicked ==
    /\ ~page.loading /\ ~page.error
    /\ page.status = "processing"
    /\ fetchResult("button")

\* The computation of the KPIs of the result ends, in the background or on
\* demand: status ready, or error with a message.
KpisCalculated ==
    /\ resultsMeta[1].status = "processing"
    /\ resultsMeta' = [resultsMeta EXCEPT ![1] = calculate_all_kpis(@)]
    /\ UNCHANGED <<templateState, resultFiles, upload, kpis, comparison>>
    /\ UNCHANGED <<genVars, idxVars, ruleVars, pageVars>>

\* GET /api/results/<result_id> handled by the server: the answer carries
\* the status the result has then.
GetHandled(k) ==
    /\ k \in 1..Len(page.fetches)
    /\ page.fetches[k] = "pending"
    /\ page' = [page EXCEPT !.fetches[k] = resultsMeta[1].status]
    /\ UNCHANGED <<genVars, idxVars, resVars, ruleVars, preview, editor>>

\* fetchResult after its await, the request having succeeded:
\* setResult(data), setLoading(false), and the polling effect of the render
\* that follows.
FetchAnswered(k) ==
    /\ k \in 1..Len(page.fetches)
    /\ page.fetches[k] # "pending"
    /\ page' = [page EXCEPT !.status = page.fetches[k],
                            !.loading = FALSE,
                            !.fetches = RemoveAt(page.fetches, k),
                            !.timer = pollingEffect(page.fetches[k]),
                            !.settled = @ \/ page.fetches[k] \in FinalStatuses]
    /\ UNCHANGED <<genVars, idxVars, resVars, ruleVars, preview, editor>>

\* fetchResult after its await, the request having failed: setError,
\* setResult(null), setLoading(false).
FetchFailed(k) ==
    /\ k \in 1..Len(page.fetches)
    /\ page' = [page EXCEPT !.status = "none",
                            !.loading = FALSE,
                            !.error = TRUE,
                            !.fetches = RemoveAt(page.fetches, k),
                            !.timer = pollingEffect("none")]
    /\ UNCHANGED <<genVars, idxVars, resVars, ruleVars, preview, editor>>

PollNext ==
    \/ IntervalElapsed
    \/ RefreshClicked
    \/ KpisCalculated
    \/ \E k \in 1..MaxFetches : GetHandled(k)
    \/ \E k \in 1..MaxFetches : FetchAnswered(k)
    \/ \E k \in 1..MaxFetches : FetchFailed(k)

SpecPoll == PollInit /\ [][PollNext]_vars

\* The same page when every request succeeds, the interval elapses when it
\* is set, the server handles and answers every request and the computation
\* of the KPIs ends.
PollSucceeding ==
    \/ IntervalElapsed
    \/ RefreshClicked
    \/ KpisCalculated
    \/ \E k \in 1..MaxFetches : GetHandled(k)
    \/ \E k \in 1..MaxFetches : FetchAnswered(k)

SpecPollFair ==
    /\ PollInit
    /\ [][PollSucceeding]_vars
    /\ WF_vars(IntervalElapsed)
    /\ WF_vars(KpisCalculated)
    /\ \A k \in 1..MaxFetches :
          WF_vars(GetHandled(k)) /\ WF_vars(FetchAnswered(k))

\* C27: while the status of the result is processing the page fetches it
\* again at every interval; when the server comes to report ready or error
\* and the fetches succeed the page leaves the processing view; and once
\* the page has held the result with status ready or error, no further
\* automatic fetch is issued.
C27_NoAutomaticFetchOnceSettled ==
    [][page.settled =>
          ~(/\ Len(page'.fetches) > Len(page.fetches)
            /\ page'.issued = "interval")]_vars

\* The part of C27 on leaving the processing view: with successful fetches
\* the page comes to hold the result with status ready or error.
C27_LeavesProcessingView ==
    <>(page.status \in FinalStatuses /\ ~page.loading)

\* The part of C27 on polling: while the page holds the result with status
\* processing and no fetch is on its way, the interval is set.
C27_PollsWhileProcessing ==
    (page.status = "processing" /\ page.fetches = <<>>) => page.timer

(***************************************************************************)
(* SpecComponentKpi: calculate_component_kpis on a stored result, for the  *)
(* components of the template.  Of the metrics of a variant and of the     *)
(* component only pass_rate and row_count are modelled; the other metrics  *)
(* are recalculated from the combined rows and take no part in pass_rate.  *)
(***************************************************************************)
MaxComponentRows == 2

\* Run records of three permutations with test arrays of several lengths.
ComponentRows ==
    {[permutation_item_id |-> id, run_id |-> 1, test_array |-> t,
      tool_call_int |-> 2, forbidden_tool_calls |-> 0, time_spent |-> 1] :
        id \in {ResIndex[1].id, ResIndex[2].id, ResIndex[3].id},
        t \in {<<1, 1, 1>>, <<1, 1, 0>>, <<1>>, <<0>>}}

\* permutation_lookup: the selection of a permutation id in the
\* permutation file of the template.
permutation_lookup(file, id) ==
    LET k == CHOOSE j \in 1..Len(file) : file[j].id = id
    IN file[k].permutations

\* The rows of a variant: those whose permutation id maps to the variant.
variant_rows(result_data, component_name, variant, file) ==
    SelectSeq(result_data,
              LAMBDA row : VariantIn(permutation_lookup(file,
                                         row.permutation_item_id),
                                     component_name) = variant)

\* Variant-level calculations: the pass rate as at the high level, over
\* the rows of the variant, and row_count = len(variant_rows).
calculate_variant_kpis(result_data, component_name, variant, file) ==
    LET rows == variant_rows(result_data, component_name, variant, file)
    IN [variant |-> variant, pass_rate |-> pass_rate(rows),
        row_count |-> Len(rows)]

\* sum(pass_rate * row_count) / total_rows over the variants, as an exact
\* ratio over the product of the denominators of the variants' pass rates.
weighted_average(variants) ==
    LET dens == [i \in 1..Len(variants) |-> variants[i].pass_rate.den]
        P == Product(dens)
        total_rows == Sum([i \in 1..Len(variants) |-> variants[i].row_count])
    IN IF \E i \in 1..Len(variants) : variants[i].pass_rate.kind # "value"
       THEN ZeroDivisionError
       ELSE divide(Sum([i \in 1..Len(variants) |->
                         variants[i].pass_rate.num * variants[i].row_count
                             * (P \div dens[i])]),
                   total_rows * P)

\* calculate_component_kpis: the variants of the component that have rows,
\* and the aggregated component-level pass rate.
calculate_component_kpis(result_data, component_name, file) ==
    LET values == components[component_name].variants
        present == SelectSeq([i \in 1..Len(values) |-> i],
                             LAMBDA i : variant_rows(result_data,
                                 component_name, values[i], file) # <<>>)
        variants == [k \in 1..Len(present) |->
                        calculate_variant_kpis(result_data, component_name,
                                               values[present[k]], file)]
    IN [variants |-> variants,
        pass_rate |-> weighted_average(variants),
        row_count |-> Sum([k \in 1..Len(variants) |->
                              variants[k].row_count])]

ComponentKpiInit ==
    /\ templateText = TemplateAB
    /\ components = DefaultComponents
    /\ variantScopes = <<>>
    /\ permFile = ResIndex
    /\ prevFile = <<>>
    /\ genInputs = <<Inputs>>
    /\ genCount = 1
    /\ templateState = "present"
    /\ \E rows \in SeqsUpTo(ComponentRows, 1, MaxComponentRows) :
          /\ accepted(rows, permFile)
          /\ resultFiles = <<rows>>
    /\ resultsMeta = <<[status |-> "processing", error_message |-> ""]>>
    /\ upload = NoUpload
    /\ kpis = NoKpis
    /\ comparison = NoComparison
    /\ IdleIdx /\ IdleRules /\ IdlePages

\* GET /api/results/<result_id>: the high-level KPIs and, for every
\* component of the template, the component KPIs.
GetComponentKpis ==
    /\ resultsMeta[1].status \in {"processing", "ready"}
    /\ LET object == calculate_kpi_object(resultFiles[1], 0)
           names == unique_component_names(templateText)
       IN /\ kpis' = [status |-> object.status,
                      error_message |-> object.error_message,
                      high_level |-> object.high_level,
                      components |-> [k \in 1..Len(names) |->
                          [component_name |-> names[k],
                           kpis |-> calculate_component_kpis(
                               resultFiles[1], names[k], permFile)]]]
          /\ resultsMeta' = <<[status |-> object.status,
                               error_message |-> object.error_message]>>
    /\ UNCHANGED <<templateState, resultFiles, upload, comparison>>
    /\ UNCHANGED <<genVars, idxVars, ruleVars, pageVars>>

\* DELETE /api/results/<result_id> of the result shown.
DeleteShownResult ==
    /\ resultsMeta[1].status # "deleted"
    /\ resultsMeta' = <<[status |-> "deleted", error_message |-> ""]>>
    /\ resultFiles' = <<<<>>>>
    /\ kpis' = NoKpis
    /\ UNCHANGED <<templateState, upload, comparison>>
    /\ UNCHANGED <<genVars, idxVars, ruleVars, pageVars>>

ComponentKpiNext ==
    \/ GetComponentKpis
    \/ DeleteShownResult

SpecComponentKpi == ComponentKpiInit /\ [][ComponentKpiNext]_vars

SameRatio(x, y) ==
    /\ x.kind = "value" /\ y.kind = "value"
    /\ x.num * y.den = y.num * x.den

\* C29: the component-level pass_rate, the row-count-weighted mean of the
\* pass rates of the variants, equals the pass rate computed directly over
\* the union of the rows of those variants (ones / array elements), for
\* every accepted result set, also when the test arrays differ in length.
C29_WeightedMeanIsPassRateOfUnion ==
    (kpis.status = "ready" /\ resultsMeta[1].status = "ready")
    => \A k \in 1..Len(kpis.components) :
          SameRatio(kpis.components[k].kpis.pass_rate,
                    pass_rate(resultFiles[1]))

\* The same for result sets whose test arrays all have one length.
C29_EqualLengthArrays ==
    (/\ kpis.status = "ready" /\ resultsMeta[1].status = "ready"
     /\ \A i, j \in 1..Len(resultFiles[1]) :
           Len(resultFiles[1][i].test_array) =
           Len(resultFiles[1][j].test_array))
    => \A k \in 1..Len(kpis.components) :
          SameRatio(kpis.components[k].kpis.pass_rate,
                    pass_rate(resultFiles[1]))

\* The variant content a variant id of a rule denotes: the variant at the
\* position of the id in the component, none when there is no such
\* position.
Denoted(id, componentsMap) ==
    IF id[2] + 1 \in 1..Len(componentsMap[id[1]].variants)
    THEN <<componentsMap[id[1]].variants[id[2] + 1]>>
    ELSE <<>>

\* The combinations of the template that a rule forbids.
Forbidden(rule, text, componentsMap) ==
    LET names == unique_component_names(text)
    IN {combination \in Range(product(
            [k \in 1..Len(names) |-> componentsMap[names[k]].variants])) :
          ~is_combination_allowed(combination, names, <<rule>>, componentsMap)}

\* C30: deleting a variant from a component does not change which variants
\* the stored deny rules of the template forbid: every variant id of a rule
\* that did not denote the deleted variant denotes the same variant content
\* after the deletion as before it, and a rule with an id of the deleted
\* variant forbids no combination after the deletion.
C30_DeletionKeepsWhatRulesForbid ==
    [][\A n \in {"a", "b"}, index \in 1..(MaxVariants + 1) :
          (/\ index \in 1..Len(components[n].variants)
           /\ components' = [components EXCEPT
                                ![n].variants = RemoveAt(@, index)])
          => \A rule \in Range(savedScopes) :
                /\ \A id \in {rule.variant1, rule.variant2} :
                      (id[1] = n /\ id[2] # index - 1)
                          => Denoted(id, components') = Denoted(id, components)
                /\ (\E id \in {rule.variant1, rule.variant2} :
                       id[1] = n /\ id[2] = index - 1)
                   => Forbidden(rule, templateText, components') = {}]_vars

\* The same for the deletion of the last variant of a component, after
\* which no position changes.
C30_DeletionOfLastVariant ==
    [][\A n \in {"a", "b"} :
          components' = [components EXCEPT
              ![n].variants = RemoveAt(@, Len(components[n].variants))]
          => \A rule \in Range(savedScopes) :
                /\ \A id \in {rule.variant1, rule.variant2} :
                      (id[1] = n /\ id[2] # Len(components[n].variants) - 1)
                          => Denoted(id, components') = Denoted(id, components)
                /\ (\E id \in {rule.variant1, rule.variant2} :
                       id[1] = n /\ id[2] = Len(components[n].variants) - 1)
                   => Forbidden(rule, templateText, components') = {}]_vars

====
